---- MODULE Spec2Model ----
(***************************************************************************)
(* A model of arianitu/go-challenge-2: the NaCl-box secured, length-framed *)
(* echo transport of secure.go (SecureWriter, SecureReader,                *)
(* SecureReadWriteCloser), prefix.go (LengthPrefixer) and main.go (Dial,   *)
(* Serve, main).                                                           *)
(*                                                                         *)
(* Byte strings are sequences over 0..255 and every length header keeps    *)
(* its uint32 width.  MaxMessageLength is scaled down from the 31999 of    *)
(* secure.go:14 so that the boundary cases (len = MaxMessageLength,        *)
(* MaxMessageLength + 1) are reached with short sequences; every other     *)
(* length of the code is derived from it exactly as the code derives it.   *)
(*                                                                         *)
(* golang.org/x/crypto/nacl/box is an external library.  It is modelled by *)
(* a small concrete cipher with the same interface and layout:             *)
(*   Precompute           a Diffie-Hellman power modulo a prime,           *)
(*   SealAfterPrecomputation   out ++ 16-byte tag ++ ciphertext,           *)
(*   OpenAfterPrecomputation   recomputes the tag and fails on mismatch.   *)
(*                                                                         *)
(* A value that an operator uses several times is bound by a quantifier    *)
(* over a singleton, { body : x \in {value} }, and taken out with CHOOSE:  *)
(* TLC evaluates the value once this way, where it would evaluate the      *)
(* definition of a LET at each use when it computes ENABLED.               *)
(***************************************************************************)
EXTENDS Integers, Sequences, FiniteSets, TLC

\* ------------------------------------------------------------------------
\* Bounds of the model and constants of the program

\* secure.go:14 sets 31999; scaled (see the header).
MaxMessageLength == 3
\* Number of Write calls one endpoint makes.
MaxWrites == 2
\* The number of connections that reach the listener of Serve.
MaxConns == 2
\* secure.go:15
nonceHeaderLength == 24
\* box.Overhead (poly1305 tag size), used at secure.go:109
Overhead == 16

Endpoints == {"client", "server"}
Peer(e) == IF e = "client" THEN "server" ELSE "client"

\* Values the random source can deliver (crypto/rand.Read).
RandValues == {0, 1}

\* main.go:385 sizes the server's buffer by maxMessageLength, which
\* part_005:143 (the same file, one revision earlier) sets to 31999, the
\* value of MaxMessageLength.
maxMessageLength == MaxMessageLength

Min(a, b) == IF a < b THEN a ELSE b

\* ------------------------------------------------------------------------
\* Bytes, slices, encoding/binary

\* A uint32 is kept as the pair <<high 16 bits, low 16 bits>>, so that all
\* 2^32 values of a length header are represented.
\* uint32(v) of a non-negative int v (secure.go:109, secure.go:197, prefix.go:24).
Uint32(v) == << (v \div 65536) % 65536, v % 65536 >>
\* a > b and a <= 0 on uint32 values.
Uint32Gt(a, b) == a[1] > b[1] \/ (a[1] = b[1] /\ a[2] > b[2])
Uint32IsZero(a) == a[1] = 0 /\ a[2] = 0
\* The int value of a uint32 (as make([]byte, length) takes it).
Uint32ToInt(a) == a[1] * 65536 + a[2]

\* binary.BigEndian.PutUint32 / Uint32 (secure.go:101, secure.go:198)
BigEndianPutUint32(v) ==
    << v[1] \div 256, v[1] % 256, v[2] \div 256, v[2] % 256 >>
BigEndianUint32(b) == << b[1] * 256 + b[2], b[3] * 256 + b[4] >>

\* binary.LittleEndian.PutUint32 / Uint32 (prefix.go:25, prefix.go:34)
LittleEndianPutUint32(v) ==
    << v[2] % 256, v[2] \div 256, v[1] % 256, v[1] \div 256 >>
LittleEndianUint32(b) == << b[4] * 256 + b[3], b[2] * 256 + b[1] >>

\* make([]byte, n)
MakeBytes(n) == [i \in 1..n |-> 0]

\* The builtin copy(dst, src): the number of bytes copied, and dst afterwards.
CopyN(dst, src) == Min(Len(dst), Len(src))
Copy(dst, src) ==
    [i \in 1..Len(dst) |-> IF i <= Len(src) THEN src[i] ELSE dst[i]]

\* s[lo:hi] of Go (0-based, hi exclusive), for 0 <= lo <= hi <= len(s).
Slice(s, lo, hi) == SubSeq(s, lo + 1, hi)

\* ------------------------------------------------------------------------
\* The box primitive (golang.org/x/crypto/nacl/box), by a concrete stand-in

\* box.GenerateKey: the private key drawn from the random source and the
\* public key computed from it (a power of the generator 6 modulo 251).
RECURSIVE PowMod(_, _)
PowMod(b, e) == IF e = 0 THEN 1 ELSE (b * PowMod(b, e - 1)) % 251

PrivateKey(rnd) == rnd + 2
\* The public key as the [32]byte that travels on the wire.
PublicKey(priv) == [i \in 1..32 |-> IF i = 1 THEN PowMod(6, priv) ELSE 0]

\* box.Precompute(&sharedKey, pub, priv)
Precompute(pub, priv) == PowMod(pub[1], priv)

\* The key stream byte at index i under (key, nonce).
KeyStream(key, nonce, i) == (key + 3 * nonce[1] + 5 * nonce[24] + 7 * i) % 256

\* The authenticator over d = nonce ++ ciphertext: tag byte j is the keyed
\* checksum  key * j + 11 + 13 * len(d) + SUM_i (i + j) * d[i]  modulo 256.
\* The length counts, as in Poly1305, where bytes of value zero appended to
\* the data change the authenticator.
RECURSIVE WeightedSum(_, _, _)
WeightedSum(d, i, w) ==
    IF i > Len(d) THEN 0
    ELSE CHOOSE s \in { ((k * w + 1 - w) * d[k] + WeightedSum(d, k + 1, w)) % 256 :
                         k \in {i} } : TRUE

TagOfSums(key, s0, s1) == [j \in 1..Overhead |-> (key * j + 11 + s1 + j * s0) % 256]
Tag(key, nonce, c) ==
    CHOOSE t \in { TagOfSums(key, s[1], s[2]) :
                    s \in { <<WeightedSum(d, 1, 0),
                              (WeightedSum(d, 1, 1) + 13 * Len(d)) % 256>> :
                            d \in {nonce \o c} } } : TRUE

\* box.SealAfterPrecomputation(out, message, nonce, sharedKey):
\* appends tag and ciphertext to out.
Decrypt(c, nonce, key) ==
    [i \in 1..Len(c) |-> (c[i] + 256 - KeyStream(key, nonce, i)) % 256]
Encrypt(message, nonce, key) ==
    [i \in 1..Len(message) |-> (message[i] + KeyStream(key, nonce, i)) % 256]
SealAfterPrecomputation(out, message, nonce, key) ==
    CHOOSE r \in { out \o Tag(key, nonce, c) \o c :
                    c \in {Encrypt(message, nonce, key) \o <<>>} } : TRUE

\* box.OpenAfterPrecomputation(out, box, nonce, sharedKey): (out ++ message, true)
\* when the tag authenticates, (nil, false) otherwise.
OpenAfterPrecomputation(out, bx, nonce, key) ==
    IF Len(bx) < Overhead
    THEN [out |-> <<>>, ok |-> FALSE]
    ELSE LET c == SubSeq(bx, Overhead + 1, Len(bx))
         IN  IF SubSeq(bx, 1, Overhead) # Tag(key, nonce, c)
             THEN [out |-> <<>>, ok |-> FALSE]
             ELSE [out |-> out \o Decrypt(c, nonce, key), ok |-> TRUE]

\* crypto/rand.Read(nonceBytes) for a 24-byte slice (secure.go:182-183)
RandRead(rnd) == [i \in 1..nonceHeaderLength |-> (17 * rnd + i) % 256]

\* ------------------------------------------------------------------------
\* secure.go: SecureWriter and SecureReader

\* SecureWriter.Init deriving the key from the own public key.
SecureWriterInitOwnKey(priv, pub) == Precompute(PublicKey(priv), priv)

\* SecureReader.Init / SecureWriter.Init (secure.go:92-95, 169-172):
\* the shared key both keep.
SecureReaderInit(priv, pub) == Precompute(pub, priv)
SecureWriterInit(priv, pub) == Precompute(pub, priv)

\* SecureWriter.Write with the length check after the nonce is generated.
SecureWriterWriteLateCheck(sharedKey, p, rnd, fail) ==
    LET nonceBytes    == RandRead(rnd)
        nonce         == Copy(MakeBytes(24), nonceBytes)
        encryptedData == SealAfterPrecomputation(nonceBytes, p, nonce, sharedKey)
        header        == BigEndianPutUint32(Uint32(Len(encryptedData)))
    IN  IF Len(p) > MaxMessageLength
        THEN [n |-> 0, err |-> "length is too large", out |-> <<>>, rand |-> TRUE]
        ELSE [n |-> Len(encryptedData), err |-> "nil",
              out |-> header \o encryptedData, rand |-> TRUE]

\* SecureWriter.Write declaring the length of the plaintext in the header.
\* Write that seals under a nonce array it never copied the random bytes to.
SecureWriterWriteZeroNonce(sharedKey, p, rnd, fail) ==
    IF Len(p) > MaxMessageLength
    THEN [n |-> 0, err |-> "length is too large", out |-> <<>>, rand |-> FALSE]
    ELSE CHOOSE r \in
           { [n |-> Len(encryptedData), err |-> "nil",
              out |-> BigEndianPutUint32(Uint32(Len(encryptedData))) \o encryptedData,
              rand |-> TRUE] :
             encryptedData \in
               { SealAfterPrecomputation(nonceBytes, p, nonce, sharedKey) :
                 nonceBytes \in {RandRead(rnd) \o <<>>},
                 nonce \in {MakeBytes(24) \o <<>>} } } : TRUE

\* Write returning len(p), the count of plaintext bytes, when it succeeds.
SecureWriterWriteCountPlain(sharedKey, p, rnd, fail) ==
    IF Len(p) > MaxMessageLength
    THEN [n |-> 0, err |-> "length is too large", out |-> <<>>, rand |-> FALSE]
    ELSE IF fail = "rand"
    THEN [n |-> 0, err |-> "rand.Read failed", out |-> <<>>, rand |-> TRUE]
    ELSE CHOOSE r \in
           { IF fail = "header"
             THEN [n |-> 0, err |-> "nil", out |-> <<>>, rand |-> TRUE]
             ELSE IF fail = "data"
             THEN [n |-> 0, err |-> "write failed",
                   out |-> BigEndianPutUint32(Uint32(Len(encryptedData))), rand |-> TRUE]
             ELSE [n |-> Len(p), err |-> "nil",
                   out |-> BigEndianPutUint32(Uint32(Len(encryptedData))) \o encryptedData,
                   rand |-> TRUE] :
             encryptedData \in
               { SealAfterPrecomputation(nonceBytes, p, nonce, sharedKey) :
                 nonceBytes \in {RandRead(rnd) \o <<>>},
                 nonce \in {Copy(MakeBytes(24), RandRead(rnd)) \o <<>>} } } : TRUE

SecureWriterWritePlainLength(sharedKey, p, rnd, fail) ==
    IF Len(p) > MaxMessageLength
    THEN [n |-> 0, err |-> "length is too large", out |-> <<>>, rand |-> FALSE]
    ELSE CHOOSE r \in
           { [n |-> Len(encryptedData), err |-> "nil",
              out |-> BigEndianPutUint32(Uint32(Len(p))) \o encryptedData,
              rand |-> TRUE] :
             encryptedData \in
               { SealAfterPrecomputation(nonceBytes, p, nonce, sharedKey) :
                 nonceBytes \in {RandRead(rnd) \o <<>>},
                 nonce \in {Copy(MakeBytes(24), RandRead(rnd)) \o <<>>} } } : TRUE

\* SecureWriter.Write(p) (secure.go:176-209).  rnd is what the random source
\* delivers; fail says which write to the underlying stream fails, if any,
\* or that rand.Read fails ("rand").
\* Yields the returned (n, err), the bytes that reached the stream (out) and
\* whether the random source was read (rand).
SecureWriterWrite(sharedKey, p, rnd, fail) ==
    IF Len(p) > MaxMessageLength
    THEN [n |-> 0, err |-> "length is too large", out |-> <<>>, rand |-> FALSE]
    ELSE IF fail = "rand"
    THEN [n |-> 0, err |-> "rand.Read failed", out |-> <<>>, rand |-> TRUE]
    ELSE CHOOSE r \in
           { LET length == Uint32(Len(encryptedData))
                 header == BigEndianPutUint32(length)
             IN  IF fail = "header"
                 THEN [n |-> 0, err |-> "nil", out |-> <<>>, rand |-> TRUE]
                 ELSE IF fail = "data"
                 THEN [n |-> 0, err |-> "write failed", out |-> header, rand |-> TRUE]
                 ELSE [n |-> Len(encryptedData), err |-> "nil",
                       out |-> header \o encryptedData, rand |-> TRUE] :
             encryptedData \in
               { SealAfterPrecomputation(nonceBytes, p, nonce, sharedKey) :
                 nonceBytes \in {RandRead(rnd) \o <<>>},
                 nonce \in {Copy(MakeBytes(24), RandRead(rnd)) \o <<>>} } } : TRUE

\* A single Read of the stream taken for a full buffer.
ReadFullSingleRead(buf, n) == n >= 1 \/ Len(buf) = 0

\* io.ReadFull (and binary.Read, which uses it): the buffer is complete when
\* n bytes of it are filled (secure.go:101, secure.go:116, prefix.go:34, 43).
ReadFullDone(buf, n) == n = Len(buf)

\* ReadMsg with the length check one byte too lenient.
\* ReadMsg bounding the frame by the bound of the plaintext.
ReadMsgHeaderPlainBound(hdr) ==
    LET length    == BigEndianUint32(hdr)
        maxLength == Uint32(MaxMessageLength)
    IN  IF Uint32IsZero(length)
        THEN [err |-> "invalid length", alloc |-> Uint32(0)]
        ELSE IF Uint32Gt(length, maxLength)
        THEN [err |-> "length is too large", alloc |-> Uint32(0)]
        ELSE [err |-> "nil", alloc |-> length]

ReadMsgHeaderOffByOne(hdr) ==
    LET length    == BigEndianUint32(hdr)
        maxLength == Uint32(MaxMessageLength + nonceHeaderLength + Overhead + 1)
    IN  IF Uint32IsZero(length)
        THEN [err |-> "invalid length", alloc |-> Uint32(0)]
        ELSE IF Uint32Gt(length, maxLength)
        THEN [err |-> "length is too large", alloc |-> Uint32(0)]
        ELSE [err |-> "nil", alloc |-> length]

\* SecureReader.ReadMsg, from the decoded header to the allocation
\* (secure.go:100-115): the error, and the size given to make([]byte, length)
\* (0 when the call returns before it).
ReadMsgHeader(hdr) ==
    LET length    == BigEndianUint32(hdr)
        maxLength == Uint32(MaxMessageLength + nonceHeaderLength + Overhead)
    IN  IF Uint32IsZero(length)
        THEN [err |-> "invalid length", alloc |-> Uint32(0)]
        ELSE IF Uint32Gt(length, maxLength)
        THEN [err |-> "length is too large", alloc |-> Uint32(0)]
        ELSE [err |-> "nil", alloc |-> length]

\* ReadMsg returning whatever the box gave, authenticated or not.
ReadMsgOpenIgnoreOk(sharedKey, encryptedData) ==
    IF Len(encryptedData) < 24
    THEN [msg |-> <<>>, err |-> "panic: slice bounds out of range"]
    ELSE LET nonce == Copy(MakeBytes(24), Slice(encryptedData, 0, 24))
             r == OpenAfterPrecomputation(<<>>,
                      Slice(encryptedData, 24, Len(encryptedData)), nonce, sharedKey)
         IN  [msg |-> r.out, err |-> "nil"]

\* ReadMsg opening the whole frame, nonce included, as the box.
ReadMsgOpenWholeFrame(sharedKey, encryptedData) ==
    IF Len(encryptedData) < 24
    THEN [msg |-> <<>>, err |-> "panic: slice bounds out of range"]
    ELSE LET nonce == Copy(MakeBytes(24), Slice(encryptedData, 0, 24))
             r == OpenAfterPrecomputation(<<>>, encryptedData, nonce, sharedKey)
         IN  IF ~r.ok
             THEN [msg |-> <<>>, err |-> "failed to decrypt box"]
             ELSE [msg |-> r.out, err |-> "nil"]

\* SecureReader.ReadMsg, once the frame is read in full (secure.go:121-133).
\* encryptedData[0:24] of a shorter slice panics.
ReadMsgOpen(sharedKey, encryptedData) ==
    IF Len(encryptedData) < 24
    THEN [msg |-> <<>>, err |-> "panic: slice bounds out of range"]
    ELSE CHOOSE rm \in
           { IF ~r.ok
             THEN [msg |-> <<>>, err |-> "failed to decrypt box"]
             ELSE [msg |-> r.out, err |-> "nil"] :
             r \in { OpenAfterPrecomputation(<<>>,
                         Slice(encryptedData, 24, Len(encryptedData)), nonce, sharedKey) :
                     nonce \in {Copy(MakeBytes(24), Slice(encryptedData, 0, 24)) \o <<>>} } }
           : TRUE

\* Read turning a failed ReadMsg into an empty read.
SecureReaderReadDropError(p, rm) ==
    IF rm.err # "nil"
    THEN [n |-> 0, err |-> "nil", p |-> p]
    ELSE [n |-> CopyN(p, rm.msg), err |-> "nil", p |-> Copy(p, rm.msg)]

\* Read returning the length of the message instead of the bytes copied.
SecureReaderReadMsgLen(p, rm) ==
    IF rm.err # "nil"
    THEN [n |-> 0, err |-> rm.err, p |-> p]
    ELSE [n |-> Len(rm.msg), err |-> "nil", p |-> Copy(p, rm.msg)]

\* SecureReader.Read(p), given what ReadMsg returned (secure.go:139-147).
SecureReaderRead(p, rm) ==
    IF rm.err # "nil"
    THEN [n |-> 0, err |-> rm.err, p |-> p]
    ELSE [n |-> CopyN(p, rm.msg), err |-> "nil", p |-> Copy(p, rm.msg)]

\* ------------------------------------------------------------------------
\* The snacl package (src/unnamed/part_004): the Reader and Writer that
\* SecureConnection puts on the connection in the earlier main.go

\* snacl.Writer.Write(p) (part_004:130-158): no length check, a
\* little-endian header, and (0, nil) when the header write fails.
SnaclWriterWrite(sharedKey, p, rnd, fail) ==
    CHOOSE r \in
      { LET length == Uint32(Len(encryptedData))
            header == LittleEndianPutUint32(length)
        IN  IF fail = "header"
            THEN [n |-> 0, err |-> "nil", out |-> <<>>, rand |-> TRUE]
            ELSE IF fail = "data"
            THEN [n |-> 0, err |-> "write failed", out |-> header, rand |-> TRUE]
            ELSE [n |-> Len(encryptedData), err |-> "nil",
                  out |-> header \o encryptedData, rand |-> TRUE] :
        encryptedData \in
          { SealAfterPrecomputation(nonceBytes, p, nonce, sharedKey) :
            nonceBytes \in {RandRead(rnd) \o <<>>},
            nonce \in {Copy(MakeBytes(24), RandRead(rnd)) \o <<>>} } } : TRUE

\* snacl.Reader.Read, from the decoded header to the allocation
\* (part_004:73-81): make([]byte, length) for whatever length was declared.
SnaclReadHeader(hdr) == [err |-> "nil", alloc |-> LittleEndianUint32(hdr)]

\* snacl.Reader.Read(p), once the frame is read in full (part_004:87-101).
SnaclReadOpen(sharedKey, p, encryptedData) ==
    IF Len(encryptedData) < 24
    THEN [msg |-> <<>>, n |-> 0, err |-> "panic: slice bounds out of range", p |-> p]
    ELSE CHOOSE res \in
           { IF ~r.ok
             THEN [msg |-> <<>>, n |-> 0, err |-> "Failed to decrypt box!", p |-> p]
             ELSE [msg |-> <<>>, n |-> CopyN(p, r.out), err |-> "nil",
                   p |-> Copy(p, r.out)] :
             r \in { OpenAfterPrecomputation(<<>>,
                         Slice(encryptedData, 24, Len(encryptedData)), nonce, sharedKey) :
                     nonce \in {Copy(MakeBytes(24), Slice(encryptedData, 0, 24)) \o <<>>} } }
           : TRUE

\* ------------------------------------------------------------------------
\* prefix.go: LengthPrefixer

\* The limit written into LengthPrefixer.Read (prefix.go:38: 31999, the
\* value of MaxMessageLength).
PrefixMaxLength == MaxMessageLength

\* LengthPrefixer.Write(p) (prefix.go:23-30).
LengthPrefixerWrite(p, fail) ==
    LET length == Uint32(Len(p))
        header == LittleEndianPutUint32(length)
    IN  IF fail = "header"
        THEN [n |-> 0, err |-> "write failed", out |-> <<>>]
        ELSE IF fail = "data"
        THEN [n |-> 0, err |-> "write failed", out |-> header]
        ELSE [n |-> Len(p), err |-> "nil", out |-> header \o p]

\* LengthPrefixer.Read, from the decoded header to the allocation
\* (prefix.go:33-42).
LengthPrefixerReadHeader(hdr) ==
    LET length == LittleEndianUint32(hdr)
    IN  IF Uint32Gt(length, Uint32(PrefixMaxLength))
        THEN [err |-> "Length prefix is too big!", alloc |-> Uint32(0)]
        ELSE [err |-> "nil", alloc |-> length]

\* LengthPrefixer.Read(p), once the payload is read in full (prefix.go:43-49).
LengthPrefixerReadCopy(p, buf) ==
    [n |-> Len(buf), err |-> "nil", p |-> Copy(p, buf)]

\* LengthPrefixer.Read of src/unnamed/part_001, from the decoded header to
\* the allocation (part_001:46-55): the LengthPrefixer has a maxLength
\* field, and the check compares with the literal 31999.
LengthPrefixerReadHeaderLiteral(maxLength, hdr) ==
    LET length == LittleEndianUint32(hdr)
    IN  IF Uint32Gt(length, Uint32(PrefixMaxLength))
        THEN [err |-> "Length prefix is too big!", alloc |-> Uint32(0)]
        ELSE [err |-> "nil", alloc |-> length]

\* LengthPrefixer.Read of src/unnamed/part_000, from the decoded header to
\* the allocation (part_000:50-59): the check compares with l.maxLength.
LengthPrefixerReadHeaderField(maxLength, hdr) ==
    LET length == LittleEndianUint32(hdr)
    IN  IF Uint32Gt(length, Uint32(maxLength))
        THEN [err |-> "Length prefix is too big!", alloc |-> Uint32(0)]
        ELSE [err |-> "nil", alloc |-> length]

\* ------------------------------------------------------------------------
\* State

VARIABLES
    codec,   \* which codec the two ends run: "secure" (secure.go) or "prefix"
    lMaxLength, \* lMaxLength[e]: the maxLength field of e's LengthPrefixer
             \* where the codec has one (0: it has none)
    wire,    \* wire[e]: every byte put on the stream towards endpoint e
    rpos,    \* rpos[e]: how many bytes of wire[e] endpoint e has consumed
    srKey,   \* srKey[e]: sharedKey of e's SecureReader (0: not initialized)
    swKey,   \* swKey[e]: sharedKey of e's SecureWriter (0: not initialized)
    rd,      \* rd[e]: the read call in progress at e
    rlog,    \* rlog[e]: what e's completed read calls returned, in order
    wlog,    \* wlog[e]: what e's write calls returned and put on the stream
    tampered,\* tampered[e]: the byte of wire[e] changed in transit (0: none)
    conn,    \* conn[e]: whether e closed the connection (closed), and whether
             \* the stream toward e ended or failed (ended) after its first
             \* upto bytes
    listener, \* Serve's accept loop: whether it runs (state) and how many
             \* connections it has accepted (accepted)
    handler, \* handler[c]: the goroutine Serve started for connection c:
             \* where it is (pc) and its local variables
    remote,  \* remote[c]: the other end of connection c and the two
             \* directions of its stream (toServer, toClient)
    pc,      \* pc[e]: where e is in Dial/main (client) or in Serve's handler
    priv,    \* priv[e]: e's private key (0: not generated)
    peerPub, \* peerPub[e]: the public key e read from the stream
    arg,     \* the message of the client's command line (os.Args[2])
    stdout   \* what the client printed

servevars == <<listener, handler, remote>>
chanvars == <<codec, lMaxLength, servevars, wire, rpos, srKey, swKey, rd, rlog, wlog, tampered, conn>>
progvars == <<pc, priv, peerPub, arg, stdout>>
vars == <<chanvars, progvars>>

\* No read call in progress.
Idle == [st |-> "idle", op |-> "none", p |-> <<>>, buf |-> <<>>, n |-> 0,
         start |-> 0, bytewise |-> TRUE]

\* Plaintexts handed to Write, by length: empty, one byte, the longest
\* allowed, and one byte too long.
Msg(n) == [i \in 1..n |-> (40 * n + i) % 256]
Plaintexts == { Msg(n) : n \in {0, 1, MaxMessageLength, MaxMessageLength + 1} }

\* Lengths of the buffers handed to Read.
BufferLengths == {1, MaxMessageLength}
\* A caller's buffer before the call (not zero, so that a copy shows).
CallerBuffer(n) == [i \in 1..n |-> 170]

\* The number of calls of the given kinds in a log.
RECURSIVE CountKind(_, _)
CountKind(log, kinds) ==
    IF log = <<>> THEN 0
    ELSE (IF Head(log).kind \in kinds THEN 1 ELSE 0) + CountKind(Tail(log), kinds)
NumWrites(e) == CountKind(wlog[e], {"Write", "LPWrite"})

\* Where the bytes of the i-th entry of a write log start on the stream.
RECURSIVE Offset(_, _)
Offset(log, i) == IF i <= 1 THEN 0 ELSE Offset(log, i - 1) + log[i - 1].wrote

\* No Serve running.
NoServe ==
    /\ listener = [state |-> "none", accepted |-> 0]
    /\ handler = <<>>
    /\ remote = <<>>

\* Before any connection: nothing initialized.
NoProgram ==
    /\ NoServe
    /\ pc = [e \in Endpoints |-> "none"]
    /\ priv = [e \in Endpoints |-> 0]
    /\ peerPub = [e \in Endpoints |-> <<>>]
    /\ arg = <<>>
    /\ stdout = [printed |-> FALSE, text |-> <<>>]

EmptyStreams ==
    /\ wire = [e \in Endpoints |-> <<>>]
    /\ rpos = [e \in Endpoints |-> 0]
    /\ rd = [e \in Endpoints |-> Idle]
    /\ rlog = [e \in Endpoints |-> <<>>]
    /\ wlog = [e \in Endpoints |-> <<>>]
    /\ tampered = [e \in Endpoints |-> 0]
    /\ conn = [e \in Endpoints |-> [closed |-> FALSE, ended |-> FALSE, upto |-> 0]]

\* No LengthPrefixer with a maxLength field on the connection.
NoMaxLength == lMaxLength = [e \in Endpoints |-> 0]

\* Two ends whose channels were built from each other's public keys:
\* NewSecureReadWriteCloser(rwc, priv, peerPub) on both sides
\* (secure.go:37-41, 66-70).
InitChannel(c) ==
    LET privC == PrivateKey(0)
        privS == PrivateKey(1)
    IN  /\ srKey = [e \in Endpoints |->
               IF e = "client" THEN SecureReaderInit(privC, PublicKey(privS))
                               ELSE SecureReaderInit(privS, PublicKey(privC))]
        /\ swKey = [e \in Endpoints |->
               IF e = "client" THEN SecureWriterInit(privC, PublicKey(privS))
                               ELSE SecureWriterInit(privS, PublicKey(privC))]
        /\ codec = c
        /\ NoMaxLength
        /\ EmptyStreams
        /\ NoProgram

Init == \E c \in {"secure", "prefix"} : InitChannel(c)

\* The same with SecureReader and SecureWriter on the stream.
InitSecure == InitChannel("secure")

\* ------------------------------------------------------------------------
\* Write calls

\* The record of a write call in the log of the writing end.
Written(kind, p, rnd, r, fail) ==
    [kind |-> kind, p |-> p, rnd |-> IF r.rand THEN rnd ELSE 0, n |-> r.n,
     err |-> r.err, wrote |-> Len(r.out), rand |-> r.rand, fail |-> fail,
     declared |-> Uint32(IF Len(r.out) >= 4 THEN Len(r.out) - 4 ELSE 0)]

\* What e's call of SecureWriter.Write(p), with result r, does to the streams.
Wrote(e, p, rnd, fail, r) ==
    /\ wire' = [wire EXCEPT ![Peer(e)] = @ \o r.out]
    /\ wlog' = [wlog EXCEPT ![e] = Append(@, Written("Write", p, rnd, r, fail))]

\* e's call of SecureWriter.Write(p) and its effect on the streams.
DoWrite(e, p, rnd, fail) ==
    \E r \in {SecureWriterWrite(swKey[e], p, rnd, fail)} : Wrote(e, p, rnd, fail, r)

\* Write working in the buffer of the Read in progress on the same
\* connection.
WriteInReadBuffer(e, p, rnd, fail) ==
    /\ codec = "secure"
    /\ swKey[e] # 0
    /\ DoWrite(e, p, rnd, fail)
    /\ rd' = [rd EXCEPT ![e].buf = MakeBytes(Len(@))]
    /\ UNCHANGED <<codec, lMaxLength, servevars, rpos, srKey, swKey, rlog, tampered, conn, progvars>>

\* e calls SecureWriter.Write(p); the bytes go to the peer's stream.
Write(e, p, rnd, fail) ==
    /\ codec = "secure"
    /\ swKey[e] # 0
    /\ DoWrite(e, p, rnd, fail)
    /\ UNCHANGED <<codec, lMaxLength, servevars, rpos, srKey, swKey, rd, rlog, tampered, conn, progvars>>

\* e calls LengthPrefixer.Write(p).
LPWrite(e, p, fail) ==
    /\ codec = "prefix"
    /\ \E r \in {LengthPrefixerWrite(p, fail) @@ [rand |-> FALSE]} :
           /\ wire' = [wire EXCEPT ![Peer(e)] = @ \o r.out]
           /\ wlog' = [wlog EXCEPT ![e] = Append(@, Written("LPWrite", p, 0, r, fail))]
    /\ UNCHANGED <<codec, lMaxLength, servevars, rpos, srKey, swKey, rd, rlog, tampered, conn, progvars>>

\* The peer of e puts a raw frame on the stream toward e: a header that
\* declares length bytes, in the byte order of the codec in use, and n bytes
\* after it.
Inject(e, length, n) ==
    /\ wire' = [wire EXCEPT ![e] = @ \o (IF codec = "secure"
                                         THEN BigEndianPutUint32(length)
                                         ELSE LittleEndianPutUint32(length))
                                     \o [i \in 1..n |-> 255]]
    /\ wlog' = [wlog EXCEPT ![Peer(e)] = Append(@,
           [kind |-> "Inject", p |-> <<>>, rnd |-> 0, n |-> 0, err |-> "nil",
            wrote |-> 4 + n, rand |-> FALSE, fail |-> "none", declared |-> length])]
    /\ UNCHANGED <<codec, lMaxLength, servevars, rpos, srKey, swKey, rd, rlog, tampered, conn, progvars>>

\* Byte b with bit k inverted.
FlipBit(b, k) == IF (b \div 2^k) % 2 = 1 THEN b - 2^k ELSE b + 2^k

\* On its way to e, bit `bit` of the k-th byte after the header of the frame
\* of the i-th Write is inverted, between read calls of e and before e has
\* read that byte.  tampered[e] keeps the position; one bit is inverted per
\* stream.
Tamper(e, i, k, bit) ==
    LET log == wlog[Peer(e)]
        pos == Offset(log, i) + 4 + k
    IN  /\ tampered[e] = 0
        /\ rd[e].st = "idle"
        /\ i \in 1..Len(log)
        /\ log[i].kind = "Write"
        /\ k >= 1
        /\ 4 + k <= log[i].wrote
        /\ pos > rpos[e]
        /\ wire' = [wire EXCEPT ![e][pos] = FlipBit(@, bit)]
        /\ tampered' = [tampered EXCEPT ![e] = pos]
        /\ UNCHANGED <<codec, lMaxLength, servevars, rpos, srKey, swKey, rd, rlog, wlog, conn, progvars>>

\* ------------------------------------------------------------------------
\* Read calls.  A call fills its current buffer by reads of the underlying
\* stream, each delivering between one byte and what is still missing
\* (io.ReadFull), and goes on when the buffer is complete.

\* The bytes that a Read of the stream toward e can still deliver.
Available(e) ==
    (IF conn[e].ended THEN Min(Len(wire[e]), conn[e].upto) ELSE Len(wire[e])) - rpos[e]

\* The stream toward e ends or fails: of the bytes written to it, e gets the
\* first n and nothing after them.
StreamEnds(e, n) ==
    /\ ~conn[e].ended
    /\ n >= rpos[e]
    /\ n <= Len(wire[e])
    /\ conn' = [conn EXCEPT ![e].ended = TRUE, ![e].upto = n]
    /\ UNCHANGED <<codec, lMaxLength, servevars, wire, rpos, srKey, swKey, rd, rlog, wlog, tampered, progvars>>

\* io.ReadFull (and binary.Read, io.ReadAtLeast) returns an error: the
\* stream ended before e's buffer was full.
ReadFullFails(e) ==
    /\ rd[e].st # "idle"
    /\ ~ReadFullDone(rd[e].buf, rd[e].n)
    /\ conn[e].ended
    /\ Available(e) = 0

\* One Read of the underlying stream delivers k bytes into e's buffer.
\* bytewise tells whether every Read of this call delivered a single byte.
ConnRead(e, k) ==
    /\ rd[e].st \in {"hdr", "data", "key"}
    /\ ~ReadFullDone(rd[e].buf, rd[e].n)
    /\ k >= 1
    /\ k <= Len(rd[e].buf) - rd[e].n
    /\ k <= Available(e)
    /\ rd' = [rd EXCEPT ![e].buf =
                 [i \in 1..Len(@) |->
                     IF i > rd[e].n /\ i <= rd[e].n + k
                     THEN wire[e][rpos[e] + (i - rd[e].n)] ELSE @[i]],
                        ![e].n = @ + k,
                        ![e].bytewise = @ /\ k = 1]
    /\ rpos' = [rpos EXCEPT ![e] = @ + k]
    /\ UNCHANGED <<codec, lMaxLength, servevars, wire, srKey, swKey, rlog, wlog, tampered, conn, progvars>>

\* What the buffer of e's read call still misses.
Missing(e) == Len(rd[e].buf) - rd[e].n

\* A call starts to fill a fresh buffer of n bytes.
StartRead(e, st, op, p, n) ==
    rd' = [rd EXCEPT ![e] = [st |-> st, op |-> op, p |-> p, buf |-> MakeBytes(n),
                             n |-> 0, start |-> rpos[e], bytewise |-> TRUE]]

\* What a call of SecureReader returns given ReadMsg's result: ReadMsg
\* itself (op = "ReadMsg"), or Read(p) on top of it (op = "Read").
ReadResult(op, p, rm) ==
    IF op = "ReadMsg"
    THEN [msg |-> rm.msg, n |-> 0, err |-> rm.err, p |-> <<>>]
    ELSE LET r == SecureReaderRead(p, rm)
         IN  [msg |-> <<>>, n |-> r.n, err |-> r.err, p |-> r.p]

\* The record of a completed read call: what it returned (res), the buffer
\* the caller passed (p0), the bytes of the stream it consumed (start, end)
\* and the size it gave to make (alloc).
Done(e, res, alloc) ==
    [op |-> rd[e].op, start |-> rd[e].start, end |-> rpos[e], p0 |-> rd[e].p,
     msg |-> res.msg, n |-> res.n, err |-> res.err, p |-> res.p, alloc |-> alloc,
     bytewise |-> rd[e].bytewise]

\* e calls SecureReader.ReadMsg() (op = "ReadMsg") or SecureReader.Read(p)
\* (op = "Read"), which calls ReadMsg: binary.Read of the 4-byte header.
ReadBegin(e, op, p) ==
    /\ codec = "secure"
    /\ srKey[e] # 0
    /\ rd[e].st = "idle"
    /\ StartRead(e, "hdr", op, p, 4)
    /\ UNCHANGED <<codec, lMaxLength, servevars, wire, rpos, srKey, swKey, rlog, wlog, tampered, conn, progvars>>

\* The header has arrived: the length checks and the allocation.
ReadMsgGotHeader(e) ==
    /\ rd[e].st = "hdr"
    /\ rd[e].op \in {"ReadMsg", "Read"}
    /\ ReadFullDone(rd[e].buf, rd[e].n)
    /\ LET h == ReadMsgHeader(rd[e].buf)
       IN  IF h.err # "nil"
           THEN /\ rlog' = [rlog EXCEPT ![e] = Append(@,
                       Done(e, ReadResult(rd[e].op, rd[e].p, [msg |-> <<>>, err |-> h.err]),
                            h.alloc))]
                /\ rd' = [rd EXCEPT ![e] = Idle]
           ELSE /\ rd' = [rd EXCEPT ![e].st = "data", ![e].n = 0,
                                    ![e].buf = MakeBytes(Uint32ToInt(h.alloc))]
                /\ UNCHANGED rlog
    /\ UNCHANGED <<codec, lMaxLength, servevars, wire, rpos, srKey, swKey, wlog, tampered, conn, progvars>>

\* The frame has arrived: open it and return.
ReadMsgGotData(e) ==
    /\ rd[e].st = "data"
    /\ rd[e].op \in {"ReadMsg", "Read"}
    /\ ReadFullDone(rd[e].buf, rd[e].n)
    /\ \E res \in {ReadResult(rd[e].op, rd[e].p, ReadMsgOpen(srKey[e], rd[e].buf))} :
           rlog' = [rlog EXCEPT ![e] = Append(@, Done(e, res, Uint32(Len(rd[e].buf))))]
    /\ rd' = [rd EXCEPT ![e] = Idle]
    /\ UNCHANGED <<codec, lMaxLength, servevars, wire, rpos, srKey, swKey, wlog, tampered, conn, progvars>>

\* The error of io.ReadFull on a stream that ended: io.EOF when it read
\* nothing, io.ErrUnexpectedEOF otherwise.
ReadFullError(n) == IF n = 0 THEN "EOF" ELSE "unexpected EOF"

\* ReadMsg swallowing the error of the stream.
ReadMsgFailsSilently(e) ==
    /\ rd[e].op \in {"ReadMsg", "Read"}
    /\ ReadFullFails(e)
    /\ rlog' = [rlog EXCEPT ![e] = Append(@,
           Done(e, ReadResult(rd[e].op, rd[e].p, [msg |-> <<>>, err |-> "nil"]),
                Uint32(0)))]
    /\ rd' = [rd EXCEPT ![e] = Idle]
    /\ UNCHANGED <<codec, lMaxLength, servevars, wire, rpos, srKey, swKey, wlog, tampered, conn, progvars>>

\* binary.Read of the header or io.ReadFull of the frame fails
\* (secure.go:101-104, 116-119): ReadMsg returns (nil, err), and Read (0, err).
ReadMsgFails(e) ==
    /\ rd[e].op \in {"ReadMsg", "Read"}
    /\ ReadFullFails(e)
    /\ rlog' = [rlog EXCEPT ![e] = Append(@,
           Done(e, ReadResult(rd[e].op, rd[e].p,
                              [msg |-> <<>>, err |-> ReadFullError(rd[e].n)]),
                IF rd[e].st = "data" THEN Uint32(Len(rd[e].buf)) ELSE Uint32(0)))]
    /\ rd' = [rd EXCEPT ![e] = Idle]
    /\ UNCHANGED <<codec, lMaxLength, servevars, wire, rpos, srKey, swKey, wlog, tampered, conn, progvars>>

\* e calls LengthPrefixer.Read(p): binary.Read of the 4-byte header.
LPReadBegin(e, p) ==
    /\ codec = "prefix"
    /\ rd[e].st = "idle"
    /\ StartRead(e, "hdr", "LPRead", p, 4)
    /\ UNCHANGED <<codec, lMaxLength, servevars, wire, rpos, srKey, swKey, rlog, wlog, tampered, conn, progvars>>

\* The header has arrived: the length check and the allocation.
LPReadGotHeader(e) ==
    /\ rd[e].st = "hdr"
    /\ rd[e].op = "LPRead"
    /\ ReadFullDone(rd[e].buf, rd[e].n)
    /\ LET h == LengthPrefixerReadHeader(rd[e].buf)
       IN  IF h.err # "nil"
           THEN /\ rlog' = [rlog EXCEPT ![e] = Append(@,
                       Done(e, [msg |-> <<>>, n |-> 0, err |-> h.err, p |-> rd[e].p],
                            h.alloc))]
                /\ rd' = [rd EXCEPT ![e] = Idle]
           ELSE /\ rd' = [rd EXCEPT ![e].st = "data", ![e].n = 0,
                                    ![e].buf = MakeBytes(Uint32ToInt(h.alloc))]
                /\ UNCHANGED rlog
    /\ UNCHANGED <<codec, lMaxLength, servevars, wire, rpos, srKey, swKey, wlog, tampered, conn, progvars>>

\* The payload has arrived: copy it and return.
LPReadGotData(e) ==
    /\ rd[e].st = "data"
    /\ rd[e].op = "LPRead"
    /\ ReadFullDone(rd[e].buf, rd[e].n)
    /\ LET r == LengthPrefixerReadCopy(rd[e].p, rd[e].buf)
       IN  rlog' = [rlog EXCEPT ![e] = Append(@,
               Done(e, [msg |-> <<>>, n |-> r.n, err |-> r.err, p |-> r.p],
                    Uint32(Len(rd[e].buf))))]
    /\ rd' = [rd EXCEPT ![e] = Idle]
    /\ UNCHANGED <<codec, lMaxLength, servevars, wire, rpos, srKey, swKey, wlog, tampered, conn, progvars>>

\* The codecs whose LengthPrefixer is built with a maxLength.
Configured == {"part_000", "part_001"}

\* e calls Write(p) of a LengthPrefixer built with a maxLength
\* (part_001:33-40, part_000:37-44).
FramedWrite(e, p) ==
    /\ codec \in Configured
    /\ \E r \in {LengthPrefixerWrite(p, "none") @@ [rand |-> FALSE]} :
           /\ wire' = [wire EXCEPT ![Peer(e)] = @ \o r.out]
           /\ wlog' = [wlog EXCEPT ![e] = Append(@, Written("FramedWrite", p, 0, r, "none"))]
    /\ UNCHANGED <<codec, lMaxLength, servevars, rpos, srKey, swKey, rd, rlog, tampered, conn, progvars>>

\* e calls Read(p) of that LengthPrefixer: binary.Read of the header.
FramedReadBegin(e, p) ==
    /\ codec \in Configured
    /\ rd[e].st = "idle"
    /\ StartRead(e, "hdr", "FramedRead", p, 4)
    /\ UNCHANGED <<codec, lMaxLength, servevars, wire, rpos, srKey, swKey, rlog, wlog, tampered, conn, progvars>>

\* The header has arrived: the length check and the allocation.
FramedReadGotHeader(e) ==
    /\ rd[e].st = "hdr"
    /\ rd[e].op = "FramedRead"
    /\ ReadFullDone(rd[e].buf, rd[e].n)
    /\ LET h == IF codec = "part_001"
                THEN LengthPrefixerReadHeaderLiteral(lMaxLength[e], rd[e].buf)
                ELSE LengthPrefixerReadHeaderField(lMaxLength[e], rd[e].buf)
       IN  IF h.err # "nil"
           THEN /\ rlog' = [rlog EXCEPT ![e] = Append(@,
                       Done(e, [msg |-> <<>>, n |-> 0, err |-> h.err, p |-> rd[e].p],
                            h.alloc))]
                /\ rd' = [rd EXCEPT ![e] = Idle]
           ELSE /\ rd' = [rd EXCEPT ![e].st = "data", ![e].n = 0,
                                    ![e].buf = MakeBytes(Uint32ToInt(h.alloc))]
                /\ UNCHANGED rlog
    /\ UNCHANGED <<codec, lMaxLength, servevars, wire, rpos, srKey, swKey, wlog, tampered, conn, progvars>>

\* The payload has arrived: copy it and return.
FramedReadGotData(e) ==
    /\ rd[e].st = "data"
    /\ rd[e].op = "FramedRead"
    /\ ReadFullDone(rd[e].buf, rd[e].n)
    /\ LET r == LengthPrefixerReadCopy(rd[e].p, rd[e].buf)
       IN  rlog' = [rlog EXCEPT ![e] = Append(@,
               Done(e, [msg |-> <<>>, n |-> r.n, err |-> r.err, p |-> r.p],
                    Uint32(Len(rd[e].buf))))]
    /\ rd' = [rd EXCEPT ![e] = Idle]
    /\ UNCHANGED <<codec, lMaxLength, servevars, wire, rpos, srKey, swKey, wlog, tampered, conn, progvars>>

\* e calls snacl.Writer.Write(p).
SnaclWrite(e, p, rnd, fail) ==
    /\ codec = "snacl"
    /\ swKey[e] # 0
    /\ \E r \in {SnaclWriterWrite(swKey[e], p, rnd, fail)} :
           /\ wire' = [wire EXCEPT ![Peer(e)] = @ \o r.out]
           /\ wlog' = [wlog EXCEPT ![e] = Append(@, Written("SnaclWrite", p, rnd, r, fail))]
    /\ UNCHANGED <<codec, lMaxLength, servevars, rpos, srKey, swKey, rd, rlog, tampered, conn, progvars>>

\* e calls snacl.Reader.Read(p): binary.Read of the 4-byte header.
SnaclReadBegin(e, p) ==
    /\ codec = "snacl"
    /\ srKey[e] # 0
    /\ rd[e].st = "idle"
    /\ StartRead(e, "hdr", "SnaclRead", p, 4)
    /\ UNCHANGED <<codec, lMaxLength, servevars, wire, rpos, srKey, swKey, rlog, wlog, tampered, conn, progvars>>

\* A buffer of so many bytes can be listed byte by byte.
Listable(length) == ~Uint32Gt(length, Uint32(2 * (MaxMessageLength + nonceHeaderLength + Overhead)))

\* The header has arrived: make([]byte, length), whatever the length.  A
\* buffer too long to list is kept by its size alone (st = "alloc"): the
\* call holds it and waits in io.ReadFull for more bytes than the stream
\* carries.
SnaclReadGotHeader(e) ==
    /\ rd[e].st = "hdr"
    /\ rd[e].op = "SnaclRead"
    /\ ReadFullDone(rd[e].buf, rd[e].n)
    /\ LET h == SnaclReadHeader(rd[e].buf)
       IN  IF Listable(h.alloc)
           THEN rd' = [rd EXCEPT ![e].st = "data", ![e].n = 0,
                                 ![e].buf = MakeBytes(Uint32ToInt(h.alloc))]
           ELSE rd' = [rd EXCEPT ![e] = [st |-> "alloc", op |-> rd[e].op, p |-> rd[e].p,
                                         buf |-> <<>>, n |-> 0, start |-> rd[e].start,
                                         bytewise |-> rd[e].bytewise, size |-> h.alloc]]
    /\ UNCHANGED <<codec, lMaxLength, servevars, wire, rpos, srKey, swKey, rlog, wlog, tampered, conn, progvars>>

\* The frame has arrived: open it, copy it and return.
SnaclReadGotData(e) ==
    /\ rd[e].st = "data"
    /\ rd[e].op = "SnaclRead"
    /\ ReadFullDone(rd[e].buf, rd[e].n)
    /\ \E res \in {SnaclReadOpen(srKey[e], rd[e].p, rd[e].buf)} :
           rlog' = [rlog EXCEPT ![e] = Append(@, Done(e, res, Uint32(Len(rd[e].buf))))]
    /\ rd' = [rd EXCEPT ![e] = Idle]
    /\ UNCHANGED <<codec, lMaxLength, servevars, wire, rpos, srKey, swKey, wlog, tampered, conn, progvars>>

\* ------------------------------------------------------------------------
\* The codec between a writing and a reading end on a reliable stream

MayWrite(e) == NumWrites(e) < MaxWrites

\* The stream delivers every buffer in one read.
Next ==
    \/ \E p \in Plaintexts, rnd \in RandValues :
           MayWrite("client") /\ Write("client", p, rnd, "none")
    \/ \E p \in Plaintexts : MayWrite("client") /\ LPWrite("client", p, "none")
    \/ ConnRead("server", Missing("server"))
    \/ ReadBegin("server", "ReadMsg", <<>>)
    \/ \E n \in BufferLengths : ReadBegin("server", "Read", CallerBuffer(n))
    \/ ReadMsgGotHeader("server")
    \/ ReadMsgGotData("server")
    \/ \E n \in BufferLengths : LPReadBegin("server", CallerBuffer(n))
    \/ LPReadGotHeader("server")
    \/ LPReadGotData("server")

Spec == Init /\ [][Next]_vars

\* ------------------------------------------------------------------------
\* main.go: Dial, the connection handler of Serve, and the client of main,
\* on one established connection

\* A connection is established; no key exists yet.  arg is os.Args[2].
InitNet ==
    /\ codec = "secure"
    /\ NoMaxLength
    /\ NoServe
    /\ srKey = [e \in Endpoints |-> 0]
    /\ swKey = [e \in Endpoints |-> 0]
    /\ EmptyStreams
    /\ pc = [e \in Endpoints |-> IF e = "client" THEN "dial" ELSE "accepted"]
    /\ priv = [e \in Endpoints |-> 0]
    /\ peerPub = [e \in Endpoints |-> <<>>]
    /\ arg \in Plaintexts
    /\ stdout = [printed |-> FALSE, text |-> <<>>]

\* conn.Write(publicKey[:]) by e: 32 raw bytes toward the peer.
WriteKey(e, pub) ==
    /\ wire' = [wire EXCEPT ![Peer(e)] = @ \o pub]
    /\ wlog' = [wlog EXCEPT ![e] = Append(@,
           [kind |-> "Key", p |-> <<>>, rnd |-> 0, n |-> 32, err |-> "nil",
            wrote |-> 32, rand |-> FALSE, fail |-> "none", declared |-> Uint32(0)])]

\* NewSecureReadWriteCloser(conn, priv, pub) at e (secure.go:37-41, 66-70).
NewSecureReadWriteCloser(e, privateKey, pub) ==
    /\ srKey' = [srKey EXCEPT ![e] = SecureReaderInit(privateKey, pub)]
    /\ swKey' = [swKey EXCEPT ![e] = SecureWriterInit(privateKey, pub)]

\* The last read call e completed.
LastRead(e) == rlog[e][Len(rlog[e])]

\* Dial up to the read of the server's key (main.go:340-347): GenerateKey,
\* then io.ReadAtLeast(conn, serverPublicKey[:], 32).
Dial(rnd) ==
    /\ pc["client"] = "dial"
    /\ priv' = [priv EXCEPT !["client"] = PrivateKey(rnd)]
    /\ StartRead("client", "key", "ReadKey", <<>>, 32)
    /\ pc' = [pc EXCEPT !["client"] = "dial_read"]
    /\ UNCHANGED <<codec, lMaxLength, servevars, wire, rpos, srKey, swKey, rlog, wlog, tampered, conn,
                   peerPub, arg, stdout>>

\* Dial returning the secure connection without writing the own key.
DialGotKeySkipWrite ==
    /\ pc["client"] = "dial_read"
    /\ rd["client"].st = "key"
    /\ ReadFullDone(rd["client"].buf, rd["client"].n)
    /\ peerPub' = [peerPub EXCEPT !["client"] = rd["client"].buf]
    /\ NewSecureReadWriteCloser("client", priv["client"], rd["client"].buf)
    /\ rd' = [rd EXCEPT !["client"] = Idle]
    /\ pc' = [pc EXCEPT !["client"] = "ready"]
    /\ UNCHANGED <<codec, lMaxLength, servevars, wire, wlog, rpos, rlog, tampered, conn, priv, arg, stdout>>

\* Dial once the server's key is read (main.go:348-356): write the own
\* public key, build the secure connection, return it.
DialGotKey ==
    /\ pc["client"] = "dial_read"
    /\ rd["client"].st = "key"
    /\ ReadFullDone(rd["client"].buf, rd["client"].n)
    /\ peerPub' = [peerPub EXCEPT !["client"] = rd["client"].buf]
    /\ WriteKey("client", PublicKey(priv["client"]))
    /\ NewSecureReadWriteCloser("client", priv["client"], rd["client"].buf)
    /\ rd' = [rd EXCEPT !["client"] = Idle]
    /\ pc' = [pc EXCEPT !["client"] = "ready"]
    /\ UNCHANGED <<codec, lMaxLength, servevars, rpos, rlog, tampered, conn, priv, arg, stdout>>

\* main after Dial (main.go:425-430): conn.Write(os.Args[2]),
\* log.Fatal on error, else conn.Read into a buffer of len(os.Args[2]).
MainWrite(rnd) ==
    /\ pc["client"] = "ready"
    /\ \E r \in {SecureWriterWrite(swKey["client"], arg, rnd, "none")} :
           /\ Wrote("client", arg, rnd, "none", r)
           /\ IF r.err # "nil"
              THEN /\ pc' = [pc EXCEPT !["client"] = "fatal"]
                   /\ UNCHANGED rd
              ELSE /\ pc' = [pc EXCEPT !["client"] = "reading"]
                   /\ StartRead("client", "hdr", "Read", MakeBytes(Len(arg)), 4)
    /\ UNCHANGED <<codec, lMaxLength, servevars, rpos, srKey, swKey, rlog, tampered, conn, priv, peerPub,
                   arg, stdout>>

\* main once conn.Read returned (main.go:430-433): log.Fatal on error,
\* else print buf[:n].
MainPrint ==
    /\ pc["client"] = "reading"
    /\ rd["client"].st = "idle"
    /\ IF LastRead("client").err # "nil"
       THEN /\ pc' = [pc EXCEPT !["client"] = "fatal"]
            /\ UNCHANGED stdout
       ELSE /\ pc' = [pc EXCEPT !["client"] = "done"]
            /\ stdout' = [printed |-> TRUE,
                          text |-> Slice(LastRead("client").p, 0, LastRead("client").n)]
    /\ UNCHANGED <<chanvars, priv, peerPub, arg>>

\* The handler reading the client's key before it writes its own.
ServeHelloReadFirst(rnd) ==
    /\ pc["server"] = "accepted"
    /\ priv' = [priv EXCEPT !["server"] = PrivateKey(rnd)]
    /\ StartRead("server", "key", "ReadKey", <<>>, 32)
    /\ pc' = [pc EXCEPT !["server"] = "hello_read"]
    /\ UNCHANGED <<codec, lMaxLength, servevars, wire, rpos, srKey, swKey, rlog, wlog, tampered, conn, peerPub,
                   arg, stdout>>

\* The handler of Serve up to the read of the client's key
\* (main.go:366-376): GenerateKey, conn.Write(serverPublicKey[:]),
\* then io.ReadFull(conn, clientPublicKey[:]).
ServeHello(rnd) ==
    /\ pc["server"] = "accepted"
    /\ priv' = [priv EXCEPT !["server"] = PrivateKey(rnd)]
    /\ WriteKey("server", PublicKey(PrivateKey(rnd)))
    /\ StartRead("server", "key", "ReadKey", <<>>, 32)
    /\ pc' = [pc EXCEPT !["server"] = "hello_read"]
    /\ UNCHANGED <<codec, lMaxLength, servevars, rpos, srKey, swKey, rlog, tampered, conn, peerPub, arg, stdout>>

\* The handler once the client's key is read (main.go:377-386): build the
\* secure connection and Read into a buffer of maxMessageLength bytes.
ServeGotKey ==
    /\ pc["server"] = "hello_read"
    /\ rd["server"].st = "key"
    /\ ReadFullDone(rd["server"].buf, rd["server"].n)
    /\ peerPub' = [peerPub EXCEPT !["server"] = rd["server"].buf]
    /\ NewSecureReadWriteCloser("server", priv["server"], rd["server"].buf)
    /\ StartRead("server", "hdr", "Read", MakeBytes(maxMessageLength), 4)
    /\ pc' = [pc EXCEPT !["server"] = "reading"]
    /\ UNCHANGED <<codec, lMaxLength, servevars, wire, rpos, rlog, wlog, tampered, conn, priv, arg, stdout>>

\* The handler writing back its whole buffer instead of buf[:read].
ServeEchoWholeBuffer(rnd) ==
    /\ pc["server"] = "reading"
    /\ rd["server"].st = "idle"
    /\ IF LastRead("server").err # "nil"
       THEN UNCHANGED <<wire, wlog>>
       ELSE DoWrite("server", LastRead("server").p, rnd, "none")
    /\ pc' = [pc EXCEPT !["server"] = "closed"]
    /\ conn' = [conn EXCEPT !["server"].closed = TRUE]
    /\ UNCHANGED <<codec, lMaxLength, servevars, rpos, srKey, swKey, rd, rlog, tampered, priv, peerPub,
                   arg, stdout>>

\* The handler once Read returned (main.go:387-397): return on error, else
\* Write(buf[:read]); the deferred conn.Close ends the handler.
ServeEcho(rnd) ==
    /\ pc["server"] = "reading"
    /\ rd["server"].st = "idle"
    /\ IF LastRead("server").err # "nil"
       THEN UNCHANGED <<wire, wlog>>
       ELSE DoWrite("server", Slice(LastRead("server").p, 0, LastRead("server").n),
                    rnd, "none")
    /\ pc' = [pc EXCEPT !["server"] = "closed"]
    /\ conn' = [conn EXCEPT !["server"].closed = TRUE]
    /\ UNCHANGED <<codec, lMaxLength, servevars, rpos, srKey, swKey, rd, rlog, tampered, priv, peerPub,
                   arg, stdout>>

\* Dial when io.ReadAtLeast fails (main.go:347-350): return nil, err.
DialReadFails ==
    /\ pc["client"] = "dial_read"
    /\ rd["client"].st = "key"
    /\ ReadFullFails("client")
    /\ rd' = [rd EXCEPT !["client"] = Idle]
    /\ pc' = [pc EXCEPT !["client"] = "dial_failed"]
    /\ UNCHANGED <<codec, lMaxLength, servevars, wire, rpos, srKey, swKey, rlog, wlog, tampered, conn,
                   priv, peerPub, arg, stdout>>

\* Dial when conn.Write of the own key fails (main.go:351-354): return nil, err.
DialWriteFails ==
    /\ pc["client"] = "dial_read"
    /\ rd["client"].st = "key"
    /\ ReadFullDone(rd["client"].buf, rd["client"].n)
    /\ peerPub' = [peerPub EXCEPT !["client"] = rd["client"].buf]
    /\ rd' = [rd EXCEPT !["client"] = Idle]
    /\ pc' = [pc EXCEPT !["client"] = "dial_failed"]
    /\ UNCHANGED <<codec, lMaxLength, servevars, wire, rpos, srKey, swKey, rlog, wlog, tampered, conn,
                   priv, arg, stdout>>

\* main when Dial returned an error (main.go:420-423): log.Fatal(err).
MainDialFatal ==
    /\ pc["client"] = "dial_failed"
    /\ pc' = [pc EXCEPT !["client"] = "fatal"]
    /\ UNCHANGED <<chanvars, priv, peerPub, arg, stdout>>

\* The handler when conn.Write of its key fails (main.go:366-373):
\* log.Println(err), return, and the deferred conn.Close().
ServeWriteFails(rnd) ==
    /\ pc["server"] = "accepted"
    /\ priv' = [priv EXCEPT !["server"] = PrivateKey(rnd)]
    /\ pc' = [pc EXCEPT !["server"] = "handshake_failed"]
    /\ conn' = [conn EXCEPT !["server"].closed = TRUE]
    /\ UNCHANGED <<codec, lMaxLength, servevars, wire, rpos, srKey, swKey, rd, rlog, wlog, tampered,
                   peerPub, arg, stdout>>

\* The handler when io.ReadFull of the client's key fails (main.go:375-381):
\* log.Println(err), return, and the deferred conn.Close().
ServeReadFails ==
    /\ pc["server"] = "hello_read"
    /\ rd["server"].st = "key"
    /\ ReadFullFails("server")
    /\ rd' = [rd EXCEPT !["server"] = Idle]
    /\ pc' = [pc EXCEPT !["server"] = "handshake_failed"]
    /\ conn' = [conn EXCEPT !["server"].closed = TRUE]
    /\ UNCHANGED <<codec, lMaxLength, servevars, wire, rpos, srKey, swKey, rlog, wlog, tampered,
                   priv, peerPub, arg, stdout>>

\* Dial when box.GenerateKey fails (main.go:345-347): GenerateKey returns
\* nil keys and an error, the error is overwritten by that of
\* io.ReadAtLeast, and Dial goes on to read the server's key.
DialRandFails ==
    /\ pc["client"] = "dial"
    /\ StartRead("client", "key", "ReadKey", <<>>, 32)
    /\ pc' = [pc EXCEPT !["client"] = "dial_read"]
    /\ UNCHANGED <<codec, lMaxLength, servevars, wire, rpos, srKey, swKey, rlog, wlog, tampered, conn,
                   priv, peerPub, arg, stdout>>

\* Dial with a nil key pair once the server's key is read (main.go:351):
\* clientPublicKey[:] dereferences the nil pointer and the process panics.
DialNilKey ==
    /\ pc["client"] = "dial_read"
    /\ priv["client"] = 0
    /\ rd["client"].st = "key"
    /\ ReadFullDone(rd["client"].buf, rd["client"].n)
    /\ peerPub' = [peerPub EXCEPT !["client"] = rd["client"].buf]
    /\ rd' = [rd EXCEPT !["client"] = Idle]
    /\ pc' = [pc EXCEPT !["client"] = "panic"]
    /\ UNCHANGED <<codec, lMaxLength, servevars, wire, rpos, srKey, swKey, rlog, wlog, tampered, conn,
                   priv, arg, stdout>>

\* The handler when box.GenerateKey fails (main.go:369-370): the error is
\* overwritten, serverPublicKey[:] dereferences the nil pointer and the
\* goroutine panics; its deferred conn.Close() runs.
ServeRandFails ==
    /\ pc["server"] = "accepted"
    /\ pc' = [pc EXCEPT !["server"] = "panic"]
    /\ conn' = [conn EXCEPT !["server"].closed = TRUE]
    /\ UNCHANGED <<codec, lMaxLength, servevars, wire, rpos, srKey, swKey, rd, rlog, wlog, tampered,
                   priv, peerPub, arg, stdout>>

\* main after Dial when rand.Read fails in Write (main.go:425-428,
\* secure.go:181-186): log.Fatal on the error of Write.
MainWriteRandFails ==
    /\ pc["client"] = "ready"
    /\ \E r \in {SecureWriterWrite(swKey["client"], arg, 0, "rand")} :
           /\ Wrote("client", arg, 0, "rand", r)
           /\ IF r.err # "nil"
              THEN /\ pc' = [pc EXCEPT !["client"] = "fatal"]
                   /\ UNCHANGED rd
              ELSE /\ pc' = [pc EXCEPT !["client"] = "reading"]
                   /\ StartRead("client", "hdr", "Read", MakeBytes(Len(arg)), 4)
    /\ UNCHANGED <<codec, lMaxLength, servevars, rpos, srKey, swKey, rlog, tampered, conn, priv, peerPub,
                   arg, stdout>>

\* The steps of the client process, of the handler goroutine, and of the
\* connection between them.
ClientStep ==
    \/ \E rnd \in RandValues : Dial(rnd)
    \/ DialGotKey
    \/ \E rnd \in RandValues : MainWrite(rnd)
    \/ ReadMsgGotHeader("client")
    \/ ReadMsgGotData("client")
    \/ MainPrint

ServerStep ==
    \/ \E rnd \in RandValues : ServeHello(rnd)
    \/ ServeGotKey
    \/ ReadMsgGotHeader("server")
    \/ ReadMsgGotData("server")
    \/ \E rnd \in RandValues : ServeEcho(rnd)

Deliver(e) == \E k \in {1, Missing(e)} : ConnRead(e, k)

NextNet ==
    \/ ClientStep
    \/ ServerStep
    \/ Deliver("client")
    \/ Deliver("server")

SpecNet == InitNet /\ [][NextNet]_vars

\* Both processes keep running and the connection keeps delivering.
FairNet ==
    /\ SpecNet
    /\ WF_vars(ClientStep)
    /\ WF_vars(ServerStep)
    /\ WF_vars(Deliver("client"))
    /\ WF_vars(Deliver("server"))

\* The same on a connection that may end or fail during the handshake.
NextNetFail ==
    \/ NextNet
    \/ DialReadFails
    \/ DialWriteFails
    \/ MainDialFatal
    \/ \E rnd \in RandValues : ServeWriteFails(rnd)
    \/ ServeReadFails
    \/ \E e \in Endpoints, n \in {0, 5, 32} : srKey[e] = 0 /\ StreamEnds(e, n)

SpecNetFail == InitNet /\ [][NextNetFail]_vars

\* The same with a random source that may fail.
NextNetRand ==
    \/ \E rnd \in RandValues : Dial(rnd)
    \/ DialRandFails
    \/ priv["client"] # 0 /\ DialGotKey
    \/ DialNilKey
    \/ \E rnd \in RandValues : MainWrite(rnd)
    \/ MainWriteRandFails
    \/ ReadMsgGotHeader("client")
    \/ ReadMsgGotData("client")
    \/ MainPrint
    \/ ServerStep
    \/ ServeRandFails
    \/ Deliver("client")
    \/ Deliver("server")

SpecNetRand == InitNet /\ [][NextNetRand]_vars

\* ------------------------------------------------------------------------
\* The same codec on a stream that delivers in chunks of any size

ChunkPlaintexts == {Msg(1), Msg(MaxMessageLength)}

\* Every Read of the stream delivers between one byte and what is missing.
NextChunk ==
    \/ \E p \in ChunkPlaintexts : MayWrite("client") /\ Write("client", p, 0, "none")
    \/ \E p \in ChunkPlaintexts : MayWrite("client") /\ LPWrite("client", p, "none")
    \/ \E k \in 1..(MaxMessageLength + nonceHeaderLength + Overhead) : ConnRead("server", k)
    \/ ReadBegin("server", "ReadMsg", <<>>)
    \/ ReadMsgGotHeader("server")
    \/ ReadMsgGotData("server")
    \/ LPReadBegin("server", CallerBuffer(MaxMessageLength))
    \/ LPReadGotHeader("server")
    \/ LPReadGotData("server")

SpecChunk == Init /\ [][NextChunk]_vars

\* SecureReader.ReadMsg / Read and LengthPrefixer.Read when every buffer is
\* filled by a single Read of the stream: what the call returns and how many
\* bytes it consumes, given the bytes of the stream from where it starts
\* ("blocked" while the stream holds too few).
WholeRead(op, p, sharedKey, bytes) ==
    IF Len(bytes) < 4 THEN [st |-> "blocked"]
    ELSE CHOOSE w \in {
           IF h.err # "nil"
           THEN [st |-> "done", used |-> 4,
                 res |-> IF op = "LPRead"
                         THEN [msg |-> <<>>, n |-> 0, err |-> h.err, p |-> p]
                         ELSE ReadResult(op, p, [msg |-> <<>>, err |-> h.err])]
           ELSE CHOOSE v \in {
                  IF Len(bytes) < 4 + length THEN [st |-> "blocked"]
                  ELSE [st |-> "done", used |-> 4 + length,
                        res |-> IF op = "LPRead"
                                THEN CHOOSE x \in
                                       { [msg |-> <<>>, n |-> r.n, err |-> r.err, p |-> r.p] :
                                           r \in { LengthPrefixerReadCopy(p, buf) :
                                                     buf \in {SubSeq(bytes, 5, 4 + length)} } }
                                       : TRUE
                                ELSE CHOOSE x \in
                                       { ReadResult(op, p, rm) :
                                           rm \in { ReadMsgOpen(sharedKey, buf) :
                                                      buf \in {SubSeq(bytes, 5, 4 + length)} } }
                                       : TRUE]
                  : length \in {Uint32ToInt(h.alloc)} } : TRUE
           : h \in {IF op = "LPRead" THEN LengthPrefixerReadHeader(SubSeq(bytes, 1, 4))
                                     ELSE ReadMsgHeader(SubSeq(bytes, 1, 4))} } : TRUE

\* The bytes of the stream toward e from position k on.
From(e, k) == SubSeq(wire[e], k + 1, Len(wire[e]))

\* ------------------------------------------------------------------------
\* The readers on a stream whose writing end sends any header

\* The largest frame of SecureReader (secure.go:109).
MaxFrameLength == MaxMessageLength + nonceHeaderLength + Overhead

\* Declared lengths around the two bounds, and beyond 16 and 31 bits.
InjectLengths ==
    {Uint32(0), Uint32(PrefixMaxLength), Uint32(PrefixMaxLength + 1),
     Uint32(MaxFrameLength), Uint32(MaxFrameLength + 1), <<1, 0>>, <<65535, 65535>>}

MayInject(e) == Len(wlog[Peer(e)]) < MaxWrites

NextInject ==
    \/ \E length \in InjectLengths, n \in {0, 2} :
           MayInject("server") /\ Inject("server", length, n)
    \/ MayInject("server") /\ Write("client", Msg(1), 0, "none")
    \/ MayInject("server") /\ LPWrite("client", Msg(1), "none")
    \/ ConnRead("server", Missing("server"))
    \/ ReadBegin("server", "ReadMsg", <<>>)
    \/ ReadMsgGotHeader("server")
    \/ ReadMsgGotData("server")
    \/ LPReadBegin("server", CallerBuffer(MaxMessageLength))
    \/ LPReadGotHeader("server")
    \/ LPReadGotData("server")

SpecInject == Init /\ [][NextInject]_vars

\* ------------------------------------------------------------------------
\* SecureWriter to SecureReader over a stream that inverts one bit

TamperPlaintexts == {Msg(0), Msg(MaxMessageLength)}

NextTamper ==
    \/ \E p \in TamperPlaintexts : MayWrite("client") /\ Write("client", p, 0, "none")
    \/ \E i \in 1..MaxWrites, k \in 1..MaxFrameLength, bit \in 0..7 :
           Tamper("server", i, k, bit)
    \/ ConnRead("server", Missing("server"))
    \/ ReadBegin("server", "ReadMsg", <<>>)
    \/ ReadMsgGotHeader("server")
    \/ ReadMsgGotData("server")

SpecTamper == InitSecure /\ [][NextTamper]_vars

\* ------------------------------------------------------------------------
\* SecureWriter over a stream whose Write may fail

FailPlaintexts == {Msg(1), Msg(MaxMessageLength)}

NextFail ==
    \/ \E p \in FailPlaintexts, fail \in {"none", "header", "data"} :
           MayInject("server") /\ Write("client", p, 0, fail)
    \/ ConnRead("server", Missing("server"))
    \/ ReadBegin("server", "ReadMsg", <<>>)
    \/ ReadMsgGotHeader("server")
    \/ ReadMsgGotData("server")

SpecFail == InitSecure /\ [][NextFail]_vars

\* ------------------------------------------------------------------------
\* SecureReader on a stream that ends anywhere

\* One read call per write call, and one more.
MayRead(e) == Len(rlog[e]) <= MaxWrites

EndPlaintexts == {Msg(1), Msg(MaxMessageLength)}

NextEnd ==
    \/ \E p \in EndPlaintexts : MayWrite("client") /\ Write("client", p, 0, "none")
    \/ \E n \in 0..(MaxWrites * (4 + MaxFrameLength)) : StreamEnds("server", n)
    \/ ConnRead("server", Min(Missing("server"), Available("server")))
    \/ MayRead("server") /\ ReadBegin("server", "ReadMsg", <<>>)
    \/ MayRead("server") /\ ReadBegin("server", "Read", CallerBuffer(MaxMessageLength))
    \/ ReadMsgGotHeader("server")
    \/ ReadMsgGotData("server")
    \/ ReadMsgFails("server")

SpecEnd == InitSecure /\ [][NextEnd]_vars

\* ------------------------------------------------------------------------
\* snacl.Reader reading the connection directly, as in the earlier Serve

InitSnacl == InitChannel("snacl")

NextSnacl ==
    \/ \E length \in InjectLengths, n \in {0, 2} :
           MayInject("server") /\ Inject("server", length, n)
    \/ \E p \in {Msg(1), Msg(MaxMessageLength + 1)} :
           MayInject("server") /\ SnaclWrite("client", p, 0, "none")
    \/ ConnRead("server", Missing("server"))
    \/ SnaclReadBegin("server", CallerBuffer(MaxMessageLength))
    \/ SnaclReadGotHeader("server")
    \/ SnaclReadGotData("server")

SpecSnacl == InitSnacl /\ [][NextSnacl]_vars

\* ------------------------------------------------------------------------
\* A LengthPrefixer built with NewLengthPrefixer(rw, maxLength) on both ends

\* The values given as maxLength: that of the earlier main.go
\* (maxMessageLength = 31999 + NonceHeaderLength + box.Overhead) and a
\* small one.
MaxLengths == {1, MaxMessageLength + nonceHeaderLength + Overhead}

InitFramed ==
    /\ codec \in Configured
    /\ \E m \in MaxLengths : lMaxLength = [e \in Endpoints |-> m]
    /\ srKey = [e \in Endpoints |-> 0]
    /\ swKey = [e \in Endpoints |-> 0]
    /\ EmptyStreams
    /\ NoProgram

FramedPayloads ==
    { Msg(n) : n \in {0, 1, 2, MaxMessageLength, MaxMessageLength + 1,
                      MaxMessageLength + nonceHeaderLength + Overhead,
                      MaxMessageLength + nonceHeaderLength + Overhead + 1} }

NextFramed ==
    \/ \E p \in FramedPayloads : MayInject("server") /\ FramedWrite("client", p)
    \/ ConnRead("server", Missing("server"))
    \/ FramedReadBegin("server", CallerBuffer(MaxMessageLength + nonceHeaderLength + Overhead))
    \/ FramedReadGotHeader("server")
    \/ FramedReadGotData("server")

SpecFramed == InitFramed /\ [][NextFramed]_vars

\* ------------------------------------------------------------------------
\* SecureReadWriteCloser.Close and the calls after it

\* What a Read or Write of a closed net.Conn returns.
ErrClosed == "use of closed network connection"

\* e calls SecureReadWriteCloser.Close (secure.go:60-63): the result of
\* rwc.Close(), which is an error when the stream is closed already.  The
\* entry in e's log notes how many read calls had returned, or had read
\* their frame in full and were about to return, by then.
Close(e) ==
    /\ codec = "secure"
    /\ srKey[e] # 0
    /\ conn' = [conn EXCEPT ![e].closed = TRUE]
    /\ wlog' = [wlog EXCEPT ![e] = Append(@,
           [kind |-> "Close", p |-> <<>>, rnd |-> 0, n |-> 0,
            err |-> IF conn[e].closed THEN ErrClosed ELSE "nil",
            wrote |-> 0, rand |-> FALSE, fail |-> "none", declared |-> Uint32(0),
            reads |-> Len(rlog[e])
                      + (IF rd[e].st = "data" /\ ReadFullDone(rd[e].buf, rd[e].n)
                         THEN 1 ELSE 0)])]
    /\ UNCHANGED <<codec, lMaxLength, servevars, wire, rpos, srKey, swKey, rd, rlog, tampered, progvars>>

\* e calls SecureWriter.Write(p): on a closed stream the first write to it,
\* that of the header, fails.
WriteOnConn(e, p, rnd) ==
    Write(e, p, rnd, IF conn[e].closed THEN "header" ELSE "none")

\* The Read of the closed stream inside binary.Read or io.ReadFull returns
\* an error, also to a call that was waiting for bytes when the stream was
\* closed (secure.go:101-104, 116-119).
ReadMsgClosed(e) ==
    /\ rd[e].op \in {"ReadMsg", "Read"}
    /\ rd[e].st # "idle"
    /\ ~ReadFullDone(rd[e].buf, rd[e].n)
    /\ conn[e].closed
    /\ rlog' = [rlog EXCEPT ![e] = Append(@,
           Done(e, ReadResult(rd[e].op, rd[e].p, [msg |-> <<>>, err |-> ErrClosed]),
                IF rd[e].st = "data" THEN Uint32(Len(rd[e].buf)) ELSE Uint32(0)))]
    /\ rd' = [rd EXCEPT ![e] = Idle]
    /\ UNCHANGED <<codec, lMaxLength, servevars, wire, rpos, srKey, swKey, wlog, tampered, conn, progvars>>

\* The calls of e on its channel: at most MaxWrites + 1 of Write and Close.
MayCall(e) == Len(wlog[e]) <= MaxWrites

NextClose ==
    \/ MayWrite("client") /\ Write("client", Msg(1), 0, "none")
    \/ \E p \in {Msg(1), Msg(MaxMessageLength + 1)} :
           MayCall("server") /\ WriteOnConn("server", p, 0)
    \/ MayCall("server") /\ Close("server")
    \/ ~conn["server"].closed /\ ConnRead("server", Missing("server"))
    \/ MayRead("server") /\ ReadBegin("server", "ReadMsg", <<>>)
    \/ MayRead("server") /\ ReadBegin("server", "Read", CallerBuffer(MaxMessageLength))
    \/ ReadMsgGotHeader("server")
    \/ ReadMsgGotData("server")
    \/ ReadMsgClosed("server")

SpecClose == InitSecure /\ [][NextClose]_vars

\* ------------------------------------------------------------------------
\* SecureReader on frames shorter than a nonce and a tag

\* Declared lengths below nonceHeaderLength + box.Overhead.
ShortLengths == {0, 1, nonceHeaderLength - 1, nonceHeaderLength,
                 nonceHeaderLength + Overhead - 1}

NextShort ==
    \/ \E length \in ShortLengths :
           MayInject("server") /\ Inject("server", Uint32(length), length)
    \/ MayInject("server") /\ Write("client", Msg(1), 0, "none")
    \/ ConnRead("server", Missing("server"))
    \/ ReadBegin("server", "ReadMsg", <<>>)
    \/ ReadMsgGotHeader("server")
    \/ ReadMsgGotData("server")

SpecShort == InitSecure /\ [][NextShort]_vars

\* ------------------------------------------------------------------------
\* SecureReader on a stream where every kind of read failure can happen

\* Headers that ReadMsg rejects: length 0 and a length above the maximum.
RejectedLengths == {Uint32(0), Uint32(MaxFrameLength + 1)}

\* Where the stream may end: in a header, in a nonce, between two frames.
EndPositions == {2, 4 + nonceHeaderLength - 1, 4 + MaxFrameLength - MaxMessageLength + 1}

NextBad ==
    \/ MayInject("server") /\ Write("client", Msg(1), 0, "none")
    \/ \E length \in RejectedLengths : MayInject("server") /\ Inject("server", length, 0)
    \/ \E i \in 1..MaxWrites, k \in {1, nonceHeaderLength + 1} : Tamper("server", i, k, 0)
    \/ \E n \in EndPositions : StreamEnds("server", n)
    \/ ConnRead("server", Min(Missing("server"), Available("server")))
    \/ MayRead("server") /\ ReadBegin("server", "ReadMsg", <<>>)
    \/ MayRead("server") /\ ReadBegin("server", "Read", CallerBuffer(MaxMessageLength))
    \/ ReadMsgGotHeader("server")
    \/ ReadMsgGotData("server")
    \/ ReadMsgFails("server")

SpecBad == InitSecure /\ [][NextBad]_vars

\* ------------------------------------------------------------------------
\* Both ends reading and writing at the same time

\* What the two ends write.
DuplexPlaintext(e) == IF e = "client" THEN Msg(MaxMessageLength) ELSE Msg(1)

NextDuplex ==
    \/ \E e \in Endpoints, rnd \in RandValues :
           MayWrite(e) /\ Write(e, DuplexPlaintext(e), rnd, "none")
    \/ \E e \in Endpoints : ConnRead(e, Missing(e))
    \/ \E e \in Endpoints : ReadBegin(e, "ReadMsg", <<>>)
    \/ \E e \in Endpoints : ReadMsgGotHeader(e)
    \/ \E e \in Endpoints : ReadMsgGotData(e)

SpecDuplex == InitSecure /\ [][NextDuplex]_vars

\* ------------------------------------------------------------------------
\* Serve (main.go:360-399): the accept loop and one handler goroutine per
\* connection, each with a remote end that behaves in any way.  A handler
\* takes what its Read finds on the stream in one step.

Conns == 1..MaxConns

\* The variables of the single connection, which Serve leaves alone.
onevars == <<codec, lMaxLength, wire, rpos, srKey, swKey, rd, rlog, wlog, tampered, conn,
             progvars>>

\* A handler that was not started, and a remote end that did nothing.
NoHandler ==
    [pc |-> "none", serverPrivateKey |-> 0, clientPublicKey |-> <<>>,
     sr |-> 0, sw |-> 0, buf |-> <<>>, read |-> 0, pos |-> 0, log |-> "nil"]
NoRemote ==
    [toServer |-> <<>>, toClient |-> <<>>, ended |-> FALSE, priv |-> 0,
     msg |-> <<>>, sent |-> "nothing"]

InitServe ==
    /\ listener = [state |-> "listening", accepted |-> 0, err |-> "nil"]
    /\ handler = [c \in Conns |-> NoHandler]
    /\ remote = [c \in Conns |-> NoRemote]
    /\ codec = "secure"
    /\ NoMaxLength
    /\ srKey = [e \in Endpoints |-> 0]
    /\ swKey = [e \in Endpoints |-> 0]
    /\ EmptyStreams
    /\ pc = [e \in Endpoints |-> "none"]
    /\ priv = [e \in Endpoints |-> 0]
    /\ peerPub = [e \in Endpoints |-> <<>>]
    /\ arg = <<>>
    /\ stdout = [printed |-> FALSE, text |-> <<>>]

\* The process runs: no goroutine has panicked.
Running == listener.state # "crashed"

\* l.Accept() returns the next connection and Serve starts its handler
\* (main.go:362-366).
Accept ==
    /\ listener.state = "listening"
    /\ listener.accepted < MaxConns
    /\ listener' = [listener EXCEPT !.accepted = @ + 1]
    /\ handler' = [handler EXCEPT ![listener.accepted + 1].pc = "accepted"]
    /\ UNCHANGED <<remote, onevars>>

\* l.Accept() returns an error and Serve returns it (main.go:362-365).
AcceptFails ==
    /\ listener.state = "listening"
    /\ listener' = [listener EXCEPT !.state = "returned", !.err = "accept failed"]
    /\ UNCHANGED <<handler, remote, onevars>>

\* The handler returns after log.Println(err), or at its end: the deferred
\* conn.Close() runs (main.go:367).
Returned(h, err) == [h EXCEPT !.pc = "closed", !.log = err]

\* The handler of c up to the read of the client's key (main.go:369-376).
HandlerHello(c, rnd, fail) ==
    /\ Running
    /\ handler[c].pc = "accepted"
    /\ IF fail
       THEN /\ handler' = [handler EXCEPT ![c] =
                   Returned([@ EXCEPT !.serverPrivateKey = PrivateKey(rnd)], "write failed")]
            /\ UNCHANGED remote
       ELSE /\ handler' = [handler EXCEPT ![c].serverPrivateKey = PrivateKey(rnd),
                                          ![c].pc = "hello_read"]
            /\ remote' = [remote EXCEPT ![c].toClient = @ \o PublicKey(PrivateKey(rnd))]
    /\ UNCHANGED <<listener, onevars>>

\* The handler of c once the client's key is read (main.go:377-385): the
\* secure connection and the buffer.
HandlerGotKey(c) ==
    /\ Running
    /\ handler[c].pc = "hello_read"
    /\ Len(remote[c].toServer) >= 32
    /\ \E pub \in {SubSeq(remote[c].toServer, 1, 32)} :
           handler' = [handler EXCEPT
               ![c].clientPublicKey = pub,
               ![c].sr = SecureReaderInit(handler[c].serverPrivateKey, pub),
               ![c].sw = SecureWriterInit(handler[c].serverPrivateKey, pub),
               ![c].buf = MakeBytes(maxMessageLength),
               ![c].pos = 32,
               ![c].pc = "reading"]
    /\ UNCHANGED <<listener, remote, onevars>>

\* A handler that returns from a failed read of the key without closing
\* the connection.
HandlerKeyFailsNoClose(c) ==
    /\ Running
    /\ handler[c].pc = "hello_read"
    /\ Len(remote[c].toServer) < 32
    /\ remote[c].ended
    /\ handler' = [handler EXCEPT ![c].pc = "returned", ![c].log = "unexpected EOF"]
    /\ UNCHANGED <<listener, remote, onevars>>

\* io.ReadFull of the client's key fails (main.go:377-381).
HandlerKeyFails(c) ==
    /\ Running
    /\ handler[c].pc = "hello_read"
    /\ Len(remote[c].toServer) < 32
    /\ remote[c].ended
    /\ handler' = [handler EXCEPT ![c] = Returned(@, "unexpected EOF")]
    /\ UNCHANGED <<listener, remote, onevars>>

\* What secureConnection.Read(buf) of the handler of c finds on its stream.
HandlerReads(c) ==
    CHOOSE w \in { WholeRead("Read", p, key, bytes) :
                     p \in {handler[c].buf}, key \in {handler[c].sr},
                     bytes \in {SubSeq(remote[c].toServer, handler[c].pos + 1,
                                       Len(remote[c].toServer))} } : TRUE

\* secureConnection.Read(buf) returns (main.go:386-390).  A panic in it
\* ends the process with all its goroutines.
HandlerRead(c) ==
    /\ Running
    /\ handler[c].pc = "reading"
    /\ \E w \in {HandlerReads(c)} :
           /\ w.st = "done"
           /\ IF w.res.err = "panic: slice bounds out of range"
              THEN /\ handler' = [handler EXCEPT ![c].pc = "panic", ![c].pos = @ + w.used]
                   /\ listener' = [listener EXCEPT !.state = "crashed"]
              ELSE /\ handler' = [handler EXCEPT ![c] =
                          IF w.res.err # "nil"
                          THEN Returned([@ EXCEPT !.pos = @ + w.used], w.res.err)
                          ELSE [@ EXCEPT !.buf = w.res.p, !.read = w.res.n,
                                         !.pos = @ + w.used, !.pc = "echo"]]
                   /\ UNCHANGED listener
    /\ UNCHANGED <<remote, onevars>>

\* secureConnection.Read(buf) fails because the stream ended.
HandlerReadFails(c) ==
    /\ Running
    /\ handler[c].pc = "reading"
    /\ HandlerReads(c).st = "blocked"
    /\ remote[c].ended
    /\ handler' = [handler EXCEPT ![c] = Returned(@, "unexpected EOF")]
    /\ UNCHANGED <<listener, remote, onevars>>

\* The handler echoing from a buffer that Serve made once for all handlers.
HandlerWriteSharedBuf(c, rnd, fail) ==
    /\ Running
    /\ handler[c].pc = "echo"
    /\ \E r \in {SecureWriterWrite(handler[c].sw,
                      Slice(IF handler[1].pc \in {"echo", "closed"}
                            THEN handler[1].buf ELSE MakeBytes(maxMessageLength),
                            0, handler[c].read), rnd, fail)} :
           /\ remote' = [remote EXCEPT ![c].toClient = @ \o r.out]
           /\ handler' = [handler EXCEPT ![c] = Returned(@, r.err)]
    /\ UNCHANGED <<listener, onevars>>

\* secureConnection.Write(buf[:read]) and the end of the handler
\* (main.go:392-397).
HandlerWrite(c, rnd, fail) ==
    /\ Running
    /\ handler[c].pc = "echo"
    /\ \E r \in { SecureWriterWrite(key, p, rnd, fail) :
                     key \in {handler[c].sw},
                     p \in {Slice(handler[c].buf, 0, handler[c].read)} } :
           /\ remote' = [remote EXCEPT ![c].toClient = @ \o r.out]
           /\ handler' = [handler EXCEPT ![c] = Returned(@, r.err)]
    /\ UNCHANGED <<listener, onevars>>

\* What the remote end of c may send after its key.
RemoteSends == {"frame", "two frames", "half a frame", "tampered", "oversized", "short"}

\* The bytes of that: a frame with its message, the same with a second
\* frame after it, the frame without its last byte, the frame with one bit
\* of its last byte flipped, a header above the maximum, and a frame of one
\* byte.
RemoteBytes(kind, frame) ==
    IF kind = "frame" THEN frame
    ELSE IF kind = "half a frame" THEN SubSeq(frame, 1, Len(frame) - 1)
    ELSE IF kind = "two frames" THEN frame \o frame
    ELSE IF kind = "tampered"
    THEN [i \in 1..Len(frame) |-> IF i = Len(frame) THEN FlipBit(frame[i], 0) ELSE frame[i]]
    ELSE IF kind = "oversized" THEN BigEndianPutUint32(Uint32(MaxFrameLength + 1))
    ELSE BigEndianPutUint32(Uint32(1)) \o <<255>>

\* The remote end of c, having read the server's key, writes its own key
\* and kind after it, as Dial and main do for a frame (main.go:345-356, 425).
RemoteSend(c, kind) ==
    /\ Running
    /\ remote[c].sent = "nothing"
    /\ ~remote[c].ended
    /\ Len(remote[c].toClient) >= 32
    /\ \E r \in {SecureWriterWrite(
                      SecureWriterInit(PrivateKey(c), SubSeq(remote[c].toClient, 1, 32)),
                      Msg(c), c, "none")} :
           remote' = [remote EXCEPT
               ![c].priv = PrivateKey(c),
               ![c].msg = Msg(c),
               ![c].sent = kind,
               ![c].toServer = @ \o PublicKey(PrivateKey(c)) \o RemoteBytes(kind, r.out)]
    /\ UNCHANGED <<listener, handler, onevars>>

\* The remote end of c closes the connection.
RemoteHangsUp(c) ==
    /\ Running
    /\ ~remote[c].ended
    /\ remote' = [remote EXCEPT ![c].ended = TRUE]
    /\ UNCHANGED <<listener, handler, onevars>>

\* The steps of the handler of c.
HandlerStep(c) ==
    \/ \E rnd \in RandValues, fail \in BOOLEAN : HandlerHello(c, rnd, fail)
    \/ HandlerGotKey(c)
    \/ HandlerKeyFails(c)
    \/ HandlerRead(c)
    \/ HandlerReadFails(c)
    \/ \E fail \in {"none", "header", "data"} : HandlerWrite(c, 0, fail)

NextServe ==
    \/ Accept
    \/ AcceptFails
    \/ \E c \in Conns : HandlerStep(c)
    \/ \E c \in Conns, kind \in RemoteSends : RemoteSend(c, kind)
    \/ \E c \in Conns : RemoteHangsUp(c)

SpecServe == InitServe /\ [][NextServe]_vars

\* ------------------------------------------------------------------------
\* Reading the logs

\* The write calls whose bytes go to e.
Sent(e) == wlog[Peer(e)]

\* The i-th call of a write log returned no error and put a frame on the stream.
IsFrame(log, i) ==
    /\ log[i].kind \in {"Write", "LPWrite"}
    /\ log[i].err = "nil"
    /\ log[i].wrote > 0

\* The frame of the i-th call reached e as it was written.
Intact(e, i) ==
    \/ tampered[e] = 0
    \/ tampered[e] <= Offset(Sent(e), i)
    \/ tampered[e] > Offset(Sent(e), i) + Sent(e)[i].wrote

\* The completed read x of e started at the first byte of the frame of
\* the i-th call.
ReadsFrame(e, x, i) ==
    /\ IsFrame(Sent(e), i)
    /\ Offset(Sent(e), i) = x.start

\* The completed read x of e started at the header of the raw frame of the
\* i-th entry.
ReadsInjected(e, x, i) ==
    /\ Sent(e)[i].kind = "Inject"
    /\ Offset(Sent(e), i) = x.start

\* The maximum a read call accepts as declared length.
ReaderBound(op) == IF op = "LPRead" THEN PrefixMaxLength ELSE MaxFrameLength

\* The frames that the Write calls of a log put on the stream when each of
\* them writes its frame in full.
RECURSIVE Frames(_, _)
Frames(log, sharedKey) ==
    IF log = <<>> THEN <<>>
    ELSE SecureWriterWrite(sharedKey, Head(log).p, Head(log).rnd, "none").out
             \o Frames(Tail(log), sharedKey)

\* The reads of a log that returned no error, in order.
RECURSIVE Successful(_)
Successful(log) ==
    IF log = <<>> THEN <<>>
    ELSE (IF Head(log).err = "nil" THEN <<Head(log)>> ELSE <<>>) \o Successful(Tail(log))

Reads(e) == { rlog[e][j] : j \in 1..Len(rlog[e]) }
Calls(e) == 1..Len(Sent(e))

\* The bytes that the i-th call of the peer of e put on the stream toward e.
FrameBytes(e, i) ==
    SubSeq(wire[e], Offset(Sent(e), i) + 1, Offset(Sent(e), i) + Sent(e)[i].wrote)

\* ------------------------------------------------------------------------
\* Claims

\* C1 (round trip): every Write(m) with 0 <= len(m) <= MaxMessageLength
\* succeeds and puts one frame on the stream, and a ReadMsg of the peer on
\* that frame returns no error and exactly m, the empty message included.
C1_RoundTrip ==
    /\ \A i \in Calls("server") :
           (Sent("server")[i].kind = "Write" /\ Len(Sent("server")[i].p) <= MaxMessageLength)
               => IsFrame(Sent("server"), i)
    /\ \A x \in Reads("server") : \A i \in Calls("server") :
           (x.op = "ReadMsg" /\ Sent("server")[i].kind = "Write" /\ ReadsFrame("server", x, i))
               => (x.err = "nil" /\ x.msg = Sent("server")[i].p)

\* C1 witness: the peer has read both the empty and the longest message.
C1_Witness ==
    /\ \E x \in Reads("server") : x.op = "ReadMsg" /\ x.err = "nil" /\ x.msg = <<>>
    /\ \E x \in Reads("server") :
           x.op = "ReadMsg" /\ x.err = "nil" /\ x.msg = Msg(MaxMessageLength)

\* C2 (tamper detection): when one bit of the nonce or of the sealed payload
\* of a frame was inverted between Write and the read, header intact, ReadMsg
\* on that frame returns an error and no message.
C2_TamperDetection ==
    \A x \in Reads("server") : \A i \in Calls("server") :
        (x.op = "ReadMsg" /\ ReadsFrame("server", x, i) /\ ~Intact("server", i))
            => /\ x.err # "nil"
               /\ x.msg = <<>>

\* C2 witness: the second of two frames lost a bit of its sealed payload
\* after the first was read; the first read returned the message, the second
\* an error.
C2_Witness ==
    /\ Len(rlog["server"]) = 2
    /\ Len(Sent("server")) = 2
    /\ ReadsFrame("server", rlog["server"][1], 1)
    /\ ReadsFrame("server", rlog["server"][2], 2)
    /\ Intact("server", 1) /\ ~Intact("server", 2)
    /\ tampered["server"] > Offset(Sent("server"), 2) + 4 + nonceHeaderLength
    /\ rlog["server"][1].err = "nil"
    /\ rlog["server"][1].op = "ReadMsg"
    /\ rlog["server"][1].msg = Sent("server")[1].p
    /\ rlog["server"][2].err = "failed to decrypt box"

\* C3 (length bound enforcement): a ReadMsg or LengthPrefixer.Read on a
\* header that declares more than the reader's maximum returns an error,
\* having allocated no buffer and consumed the four header bytes only; no
\* read in progress ever holds a buffer longer than that maximum.
C3_LengthBound ==
    /\ \A x \in Reads("server") : \A i \in Calls("server") :
           (ReadsInjected("server", x, i)
              /\ Uint32Gt(Sent("server")[i].declared, Uint32(ReaderBound(x.op))))
               => /\ x.err # "nil"
                  /\ x.alloc = Uint32(0)
                  /\ x.end = x.start + 4
                  /\ x.msg = <<>> /\ x.n = 0
    /\ rd["server"].st = "data" => Len(rd["server"].buf) <= ReaderBound(rd["server"].op)

\* C3 witness: a ReadMsg met a header declaring one byte more than the
\* largest frame, returned an error, and left the two bytes after the header
\* on the stream.
C3_Witness ==
    \E x \in Reads("server") :
        /\ x.op = "ReadMsg" /\ x.err = "length is too large"
        /\ ReadsInjected("server", x, 1)
        /\ Sent("server")[1].declared = Uint32(MaxFrameLength + 1)
        /\ Sent("server")[1].wrote = 6
        /\ rpos["server"] = 4 /\ Len(wire["server"]) = 6

\* What C4 says of every state of an echo of a message that fits.
EchoSafe ==
    Len(arg) <= MaxMessageLength =>
        /\ \A e \in Endpoints : pc[e] # "fatal"
        /\ \A x \in Reads("server") :
               x.err = "nil" /\ x.n = Len(arg) /\ Slice(x.p, 0, x.n) = arg
        /\ \A i \in 1..Len(wlog["server"]) :
               wlog["server"][i].kind = "Write" =>
                   wlog["server"][i].p = arg /\ wlog["server"][i].err = "nil"
        /\ \A x \in Reads("client") :
               x.err = "nil" /\ x.n = Len(arg) /\ x.p = arg
        /\ stdout.printed => stdout.text = arg

\* The client has printed its message.
Echoed == stdout.printed /\ stdout.text = arg /\ pc["server"] = "closed"

\* C4 (end-to-end echo): with a message m of at most MaxMessageLength bytes,
\* after the handshake the server's Read returns exactly m, the server
\* writes exactly m back, the client's Read into a buffer of len(m) bytes
\* returns exactly m, and the client gets to print m.
C4_Echo == []EchoSafe /\ ((Len(arg) <= MaxMessageLength) ~> Echoed)

\* C4 witness: the echo of the longest message has been printed.
C4_Witness ==
    /\ Echoed
    /\ arg = Msg(MaxMessageLength)
    /\ Len(rlog["server"]) = 1 /\ rlog["server"][1].n = MaxMessageLength
    /\ Len(rlog["client"]) = 1 /\ rlog["client"][1].p = arg

\* Both ends hold a secure connection built from the public key the other
\* end generated.
HandshakeDone ==
    /\ \A e \in Endpoints : srKey[e] # 0 /\ swKey[e] # 0
    /\ \A e \in Endpoints : priv[e] # 0
    /\ \A e \in Endpoints : peerPub[e] = PublicKey(priv[Peer(e)])

\* C5 (handshake progress): the handler writes its key before it reads,
\* Dial reads before it writes, and on a reliable stream both ends
\* eventually hold a secure connection built from the other's 32-byte public
\* key.
C5_HandshakeProgress == <>HandshakeDone

\* C5 witness: the handshake is complete and no message was written yet.
C5_Witness ==
    /\ HandshakeDone
    /\ pc["client"] = "ready"
    /\ \A e \in Endpoints : Len(peerPub[e]) = 32 /\ Len(wlog[e]) = 1

\* C6 (shared-secret agreement): the reader and the writer of one secure
\* connection hold the same shared key, and once both ends have built
\* theirs from the other's public key, the keys of the two ends are equal.
C6_SharedSecret ==
    /\ \A e \in Endpoints : srKey[e] = swKey[e]
    /\ (/\ \A e \in Endpoints : srKey[e] # 0
        /\ \A e \in Endpoints : peerPub[e] = PublicKey(priv[Peer(e)]))
           => /\ srKey["client"] = srKey["server"]
              /\ swKey["client"] = swKey["server"]
              /\ srKey["client"] = Precompute(PublicKey(priv["server"]), priv["client"])
              /\ srKey["client"] = Precompute(PublicKey(priv["client"]), priv["server"])

\* C6 witness: both ends have derived the key from different key pairs.
C6_Witness ==
    /\ \A e \in Endpoints : srKey[e] # 0 /\ swKey[e] # 0
    /\ priv["client"] # priv["server"]
    /\ peerPub["client"] # peerPub["server"]
    /\ srKey["client"] = swKey["server"]

\* C7 (partial-read robustness): however the stream splits the bytes of a
\* frame into reads, one byte at a time included, a completed ReadMsg or
\* LengthPrefixer.Read returns what it returns when
\* every buffer arrives in a single read, and consumes the same bytes.
C7_PartialReads ==
    \A x \in Reads("server") :
        LET w == WholeRead(x.op, x.p0, srKey["server"], From("server", x.start))
        IN  /\ w.st = "done"
            /\ x.end = x.start + w.used
            /\ [msg |-> x.msg, n |-> x.n, err |-> x.err, p |-> x.p] = w.res

\* C7 witness: two ReadMsg calls have returned the shortest and the longest
\* message after the stream delivered both frames one byte per read.
C7_Witness ==
    /\ Len(rlog["server"]) = 2
    /\ \A j \in 1..2 :
           LET x == rlog["server"][j]
           IN  /\ x.op = "ReadMsg" /\ x.bytewise /\ x.err = "nil"
               /\ x.end - x.start = 4 + nonceHeaderLength + Len(x.msg) + Overhead
    /\ rlog["server"][1].msg = Msg(1)
    /\ rlog["server"][2].msg = Msg(MaxMessageLength)

\* C8 (message atomicity and order): when every Write call so far returned
\* no error, the bytes put on the stream are the frames of the plaintexts
\* m1..mk in call order, and the i-th ReadMsg of the peer that returns no
\* error returns mi and consumes the i-th frame, no more and no less.
C8_MessageAtomicity ==
    LET log == Sent("server")
        ok  == Successful(rlog["server"])
    IN  (\A i \in 1..Len(log) : log[i].kind = "Write" /\ log[i].err = "nil") =>
            /\ wire["server"] = Frames(log, swKey["client"])
            /\ Len(ok) <= Len(log)
            /\ \A i \in 1..Len(ok) :
                   /\ ok[i].op = "ReadMsg" => ok[i].msg = log[i].p
                   /\ ok[i].start = Offset(log, i)
                   /\ ok[i].end = ok[i].start + 4 + nonceHeaderLength
                                       + Len(log[i].p) + Overhead

\* C9 (short output buffer): Read(p) on a frame carrying msg returns no
\* error, n = min(len(p), len(msg)) and p[0:n] = msg[0:n]; it consumes the
\* whole frame, so that every read starts at the start of a frame; ReadMsg on
\* a frame returns all of msg.
C9_ShortBuffer ==
    \A x \in Reads("server") :
        /\ x.op \in {"Read", "ReadMsg"} => \E i \in Calls("server") : ReadsFrame("server", x, i)
        /\ \A i \in Calls("server") :
               (Sent("server")[i].kind = "Write" /\ ReadsFrame("server", x, i)) =>
                   LET msg == Sent("server")[i].p
                   IN  /\ x.err = "nil"
                       /\ x.end = x.start + Sent("server")[i].wrote
                       /\ x.op = "Read" =>
                              /\ x.n = Min(Len(x.p0), Len(msg))
                              /\ Len(x.p) = Len(x.p0)
                              /\ SubSeq(x.p, 1, x.n) = SubSeq(msg, 1, x.n)
                       /\ x.op = "ReadMsg" => x.msg = msg

\* C9 witness: a Read with a one-byte buffer cut a longer message short, and
\* the Read after it returned the first byte of the next message.
C9_Witness ==
    /\ Len(rlog["server"]) >= 2
    /\ Len(Sent("server")) >= 2
    /\ LET x == rlog["server"][1]
           y == rlog["server"][2]
       IN  /\ x.op = "Read" /\ Len(x.p0) = 1 /\ x.n = 1 /\ x.err = "nil"
           /\ ReadsFrame("server", x, 1)
           /\ Len(Sent("server")[1].p) = MaxMessageLength
           /\ y.op = "Read" /\ y.n = 1 /\ y.err = "nil"
           /\ ReadsFrame("server", y, 2)
           /\ y.p[1] = Sent("server")[2].p[1]
           /\ y.p[1] # Sent("server")[1].p[2]

\* C10 (oversized write): Write(p) with len(p) > MaxMessageLength returns
\* n = 0 and an error, puts no byte on the stream and reads no nonce from the
\* random source; the Write of an in-bound plaintext after it succeeds, and
\* the peer reads that plaintext.
C10_OversizedWrite ==
    LET log == Sent("server")
    IN  \A i \in Calls("server") :
            (log[i].kind = "Write" /\ Len(log[i].p) > MaxMessageLength) =>
                /\ log[i].n = 0
                /\ log[i].err # "nil"
                /\ log[i].wrote = 0
                /\ ~log[i].rand
                /\ (i < Len(log) /\ Len(log[i + 1].p) <= MaxMessageLength) =>
                       /\ IsFrame(log, i + 1)
                       /\ log[i + 1].n > 0
                       /\ \A x \in Reads("server") : ReadsFrame("server", x, i + 1) =>
                              /\ x.err = "nil"
                              /\ x.op = "ReadMsg" => x.msg = log[i + 1].p
                              /\ x.op = "Read" =>
                                     SubSeq(x.p, 1, x.n) = SubSeq(log[i + 1].p, 1, x.n)

\* C10 witness: an oversized Write was refused, the next Write carried the
\* longest allowed message, and the peer has read it.
C10_Witness ==
    /\ Len(Sent("server")) = 2
    /\ Sent("server")[1].kind = "Write"
    /\ Len(Sent("server")[1].p) = MaxMessageLength + 1
    /\ Sent("server")[1].err # "nil"
    /\ Sent("server")[2].p = Msg(MaxMessageLength)
    /\ \E x \in Reads("server") :
           x.op = "ReadMsg" /\ x.err = "nil" /\ x.msg = Msg(MaxMessageLength)

\* C11 (frame length and layout): for every Write(p) that returned no error
\* and wrote its frame, the header holds 24 + len(p) + 16, exactly that many
\* bytes follow it, the first 24 of them are the nonce drawn for this call,
\* and the rest is p sealed under that nonce.
C11_FrameLayout ==
    \A i \in Calls("server") :
        (Sent("server")[i].kind = "Write" /\ IsFrame(Sent("server"), i)) =>
            LET f == FrameBytes("server", i)
                w == Sent("server")[i]
                nonce == RandRead(w.rnd)
            IN  /\ Len(f) >= 4 + nonceHeaderLength + Overhead
                /\ BigEndianUint32(SubSeq(f, 1, 4))
                       = Uint32(nonceHeaderLength + Len(w.p) + Overhead)
                /\ Len(f) - 4 = nonceHeaderLength + Len(w.p) + Overhead
                /\ SubSeq(f, 5, 4 + nonceHeaderLength) = nonce
                /\ OpenAfterPrecomputation(<<>>, SubSeq(f, 5 + nonceHeaderLength, Len(f)),
                                           nonce, swKey["client"])
                       = [out |-> w.p, ok |-> TRUE]

\* C11 witness: the frames of the empty and of the longest message are on
\* the stream, one after the other.
C11_Witness ==
    /\ Len(Sent("server")) = 2
    /\ Sent("server")[1].kind = "Write" /\ Sent("server")[1].p = Msg(0)
    /\ Sent("server")[2].kind = "Write" /\ Sent("server")[2].p = Msg(MaxMessageLength)
    /\ Len(wire["server"]) = 2 * (4 + nonceHeaderLength + Overhead) + MaxMessageLength
    /\ Sent("server")[1].rnd # Sent("server")[2].rnd

\* C12 (header byte order): the 4-byte header of every frame that
\* SecureWriter.Write puts on the stream is the frame length in
\* little-endian byte order, as the header of LengthPrefixer.Write is, and
\* ReadMsg and LengthPrefixer.Read decode it in that order.
C12_HeaderByteOrder ==
    /\ \A i \in Calls("server") :
           IsFrame(Sent("server"), i) =>
               SubSeq(FrameBytes("server", i), 1, 4)
                   = LittleEndianPutUint32(Uint32(Sent("server")[i].wrote - 4))
    /\ \A x \in Reads("server") : \A i \in Calls("server") :
           (ReadsFrame("server", x, i) /\ x.err = "nil") =>
               x.alloc = LittleEndianUint32(SubSeq(FrameBytes("server", i), 1, 4))

\* The handshake of e failed: Dial returned an error, or the handler logged
\* one and returned.
HandshakeFailed(e) ==
    IF e = "client" THEN pc[e] \in {"dial_failed", "fatal"} /\ srKey[e] = 0
                    ELSE pc[e] = "handshake_failed"

\* C13 (handshake failure): when the read of the peer's key or the write of
\* the own key fails in Dial or in the handler, that end builds no secure
\* connection, reads and writes no message, and closes the connection.
C13_HandshakeFailure ==
    \A e \in Endpoints :
        HandshakeFailed(e) =>
            /\ srKey[e] = 0 /\ swKey[e] = 0
            /\ rlog[e] = <<>>
            /\ \A i \in 1..Len(wlog[e]) : wlog[e][i].kind = "Key"
            /\ conn[e].closed

\* C14 (length-limit error is not fatal): when a ReadMsg or
\* LengthPrefixer.Read has rejected a frame for its declared length, and the
\* peer wrote a message after that frame, the next read returns no error and
\* that message.
C14_LengthLimitNotFatal ==
    \A j \in 1..(Len(rlog["server"]) - 1) : \A i \in 1..(Len(Sent("server")) - 1) :
        LET x == rlog["server"][j]
            y == rlog["server"][j + 1]
            w == Sent("server")[i + 1]
        IN  (/\ ReadsInjected("server", x, i)
             /\ Uint32Gt(Sent("server")[i].declared, Uint32(ReaderBound(x.op)))
             /\ x.err # "nil"
             /\ IsFrame(Sent("server"), i + 1))
                => /\ y.err = "nil"
                   /\ y.op = "ReadMsg" => y.msg = w.p
                   /\ y.op = "LPRead" => y.n = Len(w.p) /\ SubSeq(y.p, 1, y.n) = w.p

\* C15 (write errors are surfaced): a Write during which a write to the
\* underlying stream failed, of the header or of the sealed data, returns an
\* error; a Write that returns no error has put its whole frame on the stream.
C15_WriteErrorsSurfaced ==
    \A i \in 1..Len(wlog["client"]) :
        LET w == wlog["client"][i]
        IN  w.kind = "Write" =>
                /\ w.fail # "none" => w.err # "nil"
                /\ w.err = "nil" =>
                       w.wrote = 4 + nonceHeaderLength + Len(w.p) + Overhead

\* The bytes that e gets of the stream from position k on, when the stream
\* has ended.
Remaining(e, k) == SubSeq(wire[e], k + 1, Min(Len(wire[e]), conn[e].upto))

\* C16 (incomplete frame): when the stream has ended with fewer than 4
\* header bytes, or with a valid header and fewer payload bytes than it
\* declares, left for a read, ReadMsg returns the error of the stream and no
\* message, Read returns that error, n = 0 and leaves p alone, and no box is
\* opened.
C16_IncompleteFrame ==
    \A x \in Reads("server") :
        (/\ conn["server"].ended
         /\ WholeRead(x.op, x.p0, srKey["server"], Remaining("server", x.start)).st
                = "blocked")
            => /\ x.err \in {"EOF", "unexpected EOF"}
               /\ x.msg = <<>>
               /\ x.n = 0
               /\ x.p = x.p0
               /\ x.end = Min(Len(wire["server"]), conn["server"].upto)

\* C16 witness: the stream ended in the middle of the sealed data of the
\* second frame; the first ReadMsg returned its message, the second the
\* error.
C16_Witness ==
    /\ Len(rlog["server"]) = 2
    /\ rlog["server"][1].err = "nil" /\ rlog["server"][1].op = "ReadMsg"
    /\ rlog["server"][1].msg = Msg(1)
    /\ rlog["server"][2].err = "unexpected EOF"
    /\ rlog["server"][2].end - rlog["server"][2].start > 4 + nonceHeaderLength
    /\ conn["server"].upto < Len(wire["server"])

\* The frame of the i-th entry toward e is a raw header declaring 0xFFFFFFFF.
DeclaresMaxUint32(e, i) ==
    Sent(e)[i].kind = "Inject" /\ Sent(e)[i].declared = <<65535, 65535>>

\* C17 (unbounded declared length): with any reader of the repository on
\* the connection, a read that meets a header declaring 0xFFFFFFFF returns
\* an error and gives no such size to make: it never gets past the header
\* other than by returning the error.
C17_UnboundedLength ==
    \A i \in Calls("server") :
        DeclaresMaxUint32("server", i) =>
            /\ \A x \in Reads("server") :
                   ReadsInjected("server", x, i) => x.err # "nil" /\ x.alloc = Uint32(0)
            /\ (rd["server"].st # "idle" /\ rd["server"].start = Offset(Sent("server"), i))
                   => rd["server"].st = "hdr"

\* C18 (consistent bounds): a Write of at most MaxMessageLength bytes is
\* accepted and declares len(p) + 24 + 16, which is within the bound of
\* ReadMsg; no read of its frame fails on the length limit, ReadMsg returns
\* len(p) bytes and a Read into a buffer of maxMessageLength bytes, the
\* buffer of Serve, returns n = len(p).
C18_ConsistentBounds ==
    \A i \in Calls("server") :
        (Sent("server")[i].kind = "Write" /\ Len(Sent("server")[i].p) <= MaxMessageLength) =>
            LET w == Sent("server")[i]
            IN  /\ w.err = "nil"
                /\ w.declared = Uint32(Len(w.p) + nonceHeaderLength + Overhead)
                /\ ~Uint32Gt(w.declared, Uint32(MaxMessageLength + nonceHeaderLength + Overhead))
                /\ \A x \in Reads("server") :
                       ReadsFrame("server", x, i) =>
                           /\ x.err = "nil"
                           /\ x.op = "ReadMsg" => Len(x.msg) = Len(w.p)
                           /\ (x.op = "Read" /\ Len(x.p0) = maxMessageLength) => x.n = Len(w.p)

\* C18 witness: a plaintext of exactly MaxMessageLength bytes was written
\* and a Read into a buffer of maxMessageLength bytes returned all of it.
C18_Witness ==
    \E i \in Calls("server") :
        /\ Sent("server")[i].kind = "Write"
        /\ Len(Sent("server")[i].p) = MaxMessageLength
        /\ Sent("server")[i].declared = Uint32(MaxMessageLength + nonceHeaderLength + Overhead)
        /\ \E x \in Reads("server") :
               /\ ReadsFrame("server", x, i)
               /\ x.op = "Read" /\ Len(x.p0) = maxMessageLength
               /\ x.n = MaxMessageLength /\ x.err = "nil"

\* C19 (configured maximum): a Read of a LengthPrefixer built with
\* NewLengthPrefixer(rw, maxLength) that starts at a frame returns an error
\* exactly when the declared length is greater than maxLength, and returns
\* the whole payload otherwise.
C19_ConfiguredMaximum ==
    \A i \in Calls("server") : \A x \in Reads("server") :
        (/\ Sent("server")[i].kind = "FramedWrite"
         /\ x.op = "FramedRead"
         /\ x.start = Offset(Sent("server"), i)) =>
            LET w == Sent("server")[i]
            IN  /\ x.err # "nil" <=> Uint32Gt(w.declared, Uint32(lMaxLength["server"]))
                /\ x.err = "nil" =>
                       /\ x.n = Len(w.p)
                       /\ SubSeq(x.p, 1, Min(Len(x.p), x.n)) = SubSeq(w.p, 1, Min(Len(x.p), x.n))

\* The nonce and the sealed bytes of the frame of the i-th call toward e.
NonceBytes(e, i) == SubSeq(FrameBytes(e, i), 5, 4 + nonceHeaderLength)
SealedBytes(e, i) ==
    SubSeq(FrameBytes(e, i), 5 + nonceHeaderLength, Len(FrameBytes(e, i)))

\* The i-th and the j-th call toward e are successful Writes, i before j.
TwoWrites(e, i, j) ==
    /\ i < j
    /\ Sent(e)[i].kind = "Write" /\ IsFrame(Sent(e), i)
    /\ Sent(e)[j].kind = "Write" /\ IsFrame(Sent(e), j)

Closes(e, k) == wlog[e][k].kind = "Close" /\ wlog[e][k].err = "nil"

\* C21 (close): the first Close closes the stream and returns nil, a Close
\* after it returns the error of the stream; every Write called after the
\* Close returns an error and puts nothing on the stream, and every Read or
\* ReadMsg that is called after the Close or was waiting for bytes of the
\* stream at the Close returns an error and no data.
C21_Close ==
    \A k \in 1..Len(wlog["server"]) :
        Closes("server", k) =>
            /\ conn["server"].closed
            /\ \A j \in 1..Len(wlog["server"]) :
                   /\ (j < k) => wlog["server"][j].kind # "Close"
                   /\ (j > k /\ wlog["server"][j].kind = "Close") =>
                          wlog["server"][j].err # "nil"
                   /\ (j > k /\ wlog["server"][j].kind = "Write") =>
                          wlog["server"][j].err # "nil" /\ wlog["server"][j].wrote = 0
            /\ \A j \in 1..Len(rlog["server"]) :
                   j > wlog["server"][k].reads =>
                       /\ rlog["server"][j].err # "nil"
                       /\ rlog["server"][j].msg = <<>>
                       /\ rlog["server"][j].n = 0

\* e has a key pair that box.GenerateKey failed to generate.
NoKeyPair(e) == priv[e] = 0 /\ pc[e] \notin {"dial", "accepted"}

\* C22 (random source failure): when the random source fails in the key
\* generation of Dial or of a handler, that end writes no public key and
\* ends with an error, not with a panic; when it fails in Write, Write
\* returns an error and puts nothing on the stream.
C22_RandomSourceFailure ==
    /\ \A e \in Endpoints :
           NoKeyPair(e) =>
               /\ pc[e] # "panic"
               /\ \A i \in 1..Len(wlog[e]) : wlog[e][i].kind # "Key"
    /\ \A e \in Endpoints : \A i \in 1..Len(wlog[e]) :
           (wlog[e][i].kind = "Write" /\ wlog[e][i].fail = "rand") =>
               wlog[e][i].err # "nil" /\ wlog[e][i].wrote = 0

\* What a call returns that ended in a run-time panic.
Panicked(x) == x.err = "panic: slice bounds out of range"

\* C23 (undersized frames): a ReadMsg on a frame that declares fewer than
\* 24 + 16 bytes and carries that many returns an error and no plaintext,
\* and does not end in an out-of-range access.
C23_UndersizedFrames ==
    \A i \in Calls("server") : \A x \in Reads("server") :
        (/\ ReadsInjected("server", x, i)
         /\ Sent("server")[i].wrote = 4 + Uint32ToInt(Sent("server")[i].declared)
         /\ Uint32ToInt(Sent("server")[i].declared) < nonceHeaderLength + Overhead) =>
            /\ x.err # "nil"
            /\ ~Panicked(x)
            /\ x.msg = <<>>

\* C24 (failed reads deliver nothing): a ReadMsg that fails returns a nil
\* message with its error, and a Read that fails returns n = 0 with the
\* error and leaves p as it was; a call that returns no error has read a
\* whole frame that arrived as it was written, so that no failure is
\* reported as a successful empty read.
C24_FailedReads ==
    \A x \in Reads("server") :
        /\ x.err # "nil" => (x.msg = <<>> /\ x.n = 0 /\ x.p = x.p0)
        /\ x.err = "nil" =>
               \E i \in Calls("server") :
                   /\ ReadsFrame("server", x, i)
                   /\ Intact("server", i)
                   /\ x.end = x.start + Sent("server")[i].wrote

\* C24 witness: a Read into a non-empty buffer failed on the length limit
\* and the Read after it on a frame that does not open; both returned
\* n = 0 and left the buffer as it was.
C24_Witness ==
    /\ Len(rlog["server"]) >= 2
    /\ LET x == rlog["server"][1]
           y == rlog["server"][2]
       IN  /\ x.op = "Read" /\ x.err = "length is too large"
           /\ y.op = "Read" /\ y.err = "failed to decrypt box"
           /\ x.n = 0 /\ y.n = 0
           /\ Len(y.p0) = MaxMessageLength /\ y.p = y.p0

\* e has sent its own public key and received the 32 bytes of the peer's.
KeysExchanged(e) ==
    /\ Len(wlog[e]) >= 1
    /\ wlog[e][1].kind = "Key"
    /\ Len(wire[Peer(e)]) >= 32
    /\ SubSeq(wire[Peer(e)], 1, 32) = PublicKey(priv[e])
    /\ Len(peerPub[e]) = 32
    /\ peerPub[e] = SubSeq(wire[e], 1, 32)
    /\ rpos[e] >= 32

\* C25 (no application frame before the handshake): whatever an end puts on
\* the stream first is its raw 32-byte public key, and an end that has
\* built its secure connection, has called Write, or has called or is in a
\* Read of a frame has sent its own key and received the peer's in full;
\* no frame is read from the first 32 bytes of a direction.
C25_NoFrameBeforeHandshake ==
    \A e \in Endpoints :
        /\ Len(wlog[e]) >= 1 =>
               /\ wlog[e][1].kind = "Key"
               /\ SubSeq(wire[Peer(e)], 1, 32) = PublicKey(priv[e])
        /\ \A i \in 1..Len(wlog[e]) :
               wlog[e][i].kind = "Write" => (i > 1 /\ KeysExchanged(e))
        /\ (srKey[e] # 0 \/ swKey[e] # 0) => KeysExchanged(e)
        /\ rd[e].op \in {"Read", "ReadMsg"} => (KeysExchanged(e) /\ rd[e].start >= 32)
        /\ \A x \in Reads(e) :
               x.op \in {"Read", "ReadMsg"} => (KeysExchanged(e) /\ x.start >= 32)

\* C25 witness: after the two keys, the client wrote a frame and the
\* handler read it from byte 32 of its direction on.
C25_Witness ==
    /\ KeysExchanged("client") /\ KeysExchanged("server")
    /\ Len(wlog["client"]) = 2 /\ wlog["client"][2].kind = "Write"
    /\ wlog["client"][2].wrote > 0
    /\ \E x \in Reads("server") : x.op = "Read" /\ x.start = 32 /\ x.err = "nil"

\* What the calls of e have returned depends on e's own direction only: a
\* completed read returned what the bytes toward e give from its start on,
\* and a Write put on the stream what its plaintext, the random bytes and
\* the key give.
OwnDirectionOnly(e) ==
    /\ \A x \in Reads(e) :
           \E w \in {WholeRead(x.op, x.p0, srKey[e], From(e, x.start))} :
               /\ w.st = "done"
               /\ w.used = x.end - x.start
               /\ w.res.msg = x.msg /\ w.res.err = x.err
    /\ \A i \in 1..Len(wlog[e]) :
           wlog[e][i].kind = "Write" =>
               \E r \in {SecureWriterWrite(swKey[e], wlog[e][i].p, wlog[e][i].rnd, "none")} :
                   /\ FrameBytes(Peer(e), i) = r.out
                   /\ wlog[e][i].n = r.n /\ wlog[e][i].err = r.err

\* A step of the writer of e leaves the reader of e and the stream toward e
\* alone, a step of the reader leaves the writer and the stream toward the
\* peer alone, and no step changes a shared key.
StepsApart(e) ==
    /\ srKey'[e] = srKey[e] /\ swKey'[e] = swKey[e]
    /\ wlog'[e] # wlog[e] =>
           (rd'[e] = rd[e] /\ rlog'[e] = rlog[e] /\ rpos'[e] = rpos[e] /\ wire'[e] = wire[e])
    /\ (rd'[e] # rd[e] \/ rlog'[e] # rlog[e]) =>
           (wlog'[e] = wlog[e] /\ wire'[Peer(e)] = wire[Peer(e)])

\* C26 (full-duplex independence): with a ReadMsg and Writes interleaved in
\* any way on one connection, each returns what it returns alone, the
\* steps of the one change no state of the other, and the shared keys stay
\* as Init set them.
C26_FullDuplex ==
    /\ [](\A e \in Endpoints : OwnDirectionOnly(e))
    /\ [][\A e \in Endpoints : StepsApart(e)]_vars

\* C26 witness: the server wrote a frame between the header and the data
\* of its ReadMsg, and a second one after the data had arrived, before the
\* call returned.
C26_Witness ==
    /\ rd["server"].st = "data"
    /\ ReadFullDone(rd["server"].buf, rd["server"].n)
    /\ Len(wlog["server"]) = 2
    /\ Len(wire["client"]) = 2 * (4 + nonceHeaderLength + 1 + Overhead)
    /\ Len(rlog["client"]) = 1 /\ rlog["client"][1].err = "nil"

\* The shared key that the remote end of c holds.
RemoteKey(c) ==
    SecureReaderInit(remote[c].priv, SubSeq(remote[c].toClient, 1, 32))

\* What the remote end of c finds after the server's key on its stream.
RemoteReads(c) ==
    WholeRead("ReadMsg", <<>>, RemoteKey(c),
              SubSeq(remote[c].toClient, 33, Len(remote[c].toClient)))

\* C27 (connection isolation): with the handlers of several connections
\* interleaved in any way, the key a handler sent on its connection is the
\* one of the pair it generated, its shared key is the one of that pair and
\* of the key read from its own connection, the plaintext it holds is the
\* message sent on its own connection, and the frame it echoes opens, under
\* the key of the remote end of that connection, to that message.
C27_ConnectionIsolation ==
    \A c \in Conns :
        /\ Len(remote[c].toClient) >= 32 =>
               SubSeq(remote[c].toClient, 1, 32) = PublicKey(handler[c].serverPrivateKey)
        /\ handler[c].sr # 0 =>
               /\ handler[c].clientPublicKey = PublicKey(remote[c].priv)
               /\ handler[c].sr = RemoteKey(c)
               /\ handler[c].sw = RemoteKey(c)
        /\ handler[c].pc = "echo" =>
               Slice(handler[c].buf, 0, handler[c].read) = remote[c].msg
        /\ (Len(remote[c].toClient) > 32 /\ RemoteReads(c).st = "done") =>
               /\ RemoteReads(c).res.err = "nil"
               /\ RemoteReads(c).res.msg = remote[c].msg

\* C27 witness: two handlers with different key pairs have each echoed the
\* message of their connection, and the two messages differ.
C27_Witness ==
    /\ \A c \in {1, 2} :
           /\ handler[c].pc = "closed" /\ handler[c].log = "nil"
           /\ RemoteReads(c).st = "done"
           /\ RemoteReads(c).res.msg = Msg(c)
    /\ handler[1].serverPrivateKey # handler[2].serverPrivateKey
    /\ handler[1].sr # handler[2].sr

\* The handler of c has ended.
Ended(h) == h.pc \in {"closed", "panic"}

\* C28 (server keeps accepting): a step in which the handler of one
\* connection ends, whatever the failure it ends with, leaves the accept
\* loop and the handlers of the other connections as they were, and Serve
\* has returned only with the error of Accept.
C28_KeepsAccepting ==
    /\ [](listener.state \in {"listening", "returned"})
    /\ [](listener.state = "returned" => listener.err = "accept failed")
    /\ [][\A c \in Conns :
            (~Ended(handler[c]) /\ Ended(handler'[c])) =>
                /\ listener' = listener
                /\ \A d \in Conns \ {c} : handler'[d] = handler[d]]_vars

\* Serve with every handler goroutine scheduled and with every remote end
\* closing its connection in the end, so that no I/O of a handler stays
\* pending for ever.
FairServe ==
    /\ SpecServe
    /\ \A c \in Conns : WF_vars(HandlerStep(c)) /\ WF_vars(RemoteHangsUp(c))

\* The connection of c is closed: by the deferred conn.Close() of its
\* handler, which also runs when the handler panics, or with the process.
ConnClosed(c) == Ended(handler[c]) \/ ~Running

\* C29 (every accepted connection is closed): the connection of an accepted
\* handler is closed in the end on every path, a closed handler does
\* nothing more, and a handler whose Read has returned reads no further
\* byte of its connection and writes at most one frame to it.
C29_EveryConnectionClosed ==
    /\ \A c \in Conns : (handler[c].pc # "none") ~> ConnClosed(c)
    /\ [][\A c \in Conns :
            /\ handler[c].pc = "closed" =>
                   handler'[c] = handler[c] /\ remote'[c].toClient = remote[c].toClient
            /\ handler[c].pc \in {"echo", "closed", "panic"} =>
                   handler'[c].pos = handler[c].pos]_vars
    /\ [](\A c \in Conns :
            Len(remote[c].toClient) <= 32 + 4 + handler[c].read
                                          + nonceHeaderLength + Overhead)

\* C29 witness: one handler has closed its connection after echoing its one
\* message although a second frame was waiting, the other after a failure.
C29_Witness ==
    /\ handler[1].pc = "closed" /\ handler[1].log = "nil"
    /\ remote[1].sent = "two frames"
    /\ handler[1].pos < Len(remote[1].toServer)
    /\ RemoteReads(1).st = "done"
    /\ handler[2].pc = "closed" /\ handler[2].log # "nil"

\* ------------------------------------------------------------------------
\* The nacl codec on a LengthPrefixer (src/unnamed/part_002 on part_000, as
\* Dial and Serve of part_006 build it)

\* nacl.MaxBoxLength (part_002:12), at the scale of MaxMessageLength.
MaxBoxLength == MaxMessageLength

\* maxMessageLength of part_006:15, the maxLength of the LengthPrefixer.
NaclMaxMessageLength == MaxBoxLength + nonceHeaderLength + Overhead

\* nacl.Writer.Write(p) on LengthPrefixer.Write (part_002:71-89,
\* part_000:36-43): the bytes put on the stream and the result, which is
\* that of the LengthPrefixer's Write.
NaclWriterWrite(sharedKey, p, rnd, fail) ==
    IF fail = "rand"
    THEN [n |-> 0, err |-> "rand.Read failed", out |-> <<>>, rand |-> TRUE]
    ELSE CHOOSE r \in
           { [n |-> w.n, err |-> w.err, out |-> w.out, rand |-> TRUE] :
             w \in { LengthPrefixerWrite(encryptedData, fail) :
                     encryptedData \in
                       { SealAfterPrecomputation(randomBytes, p,
                             Copy(MakeBytes(24), randomBytes), sharedKey) :
                         randomBytes \in {RandRead(rnd)} } } } : TRUE

\* nacl.Reader.Read(p) once sr.r.Read(encryptedData) has returned without
\* error (part_002:44-52): encryptedData is the buffer of
\* NonceHeaderLength+MaxBoxLength+box.Overhead bytes, and the box that is
\* opened is encryptedData[24:], up to the end of that buffer.
NaclReaderOpen(sharedKey, p, encryptedData) ==
    CHOOSE x \in
      { IF ~r.ok
        THEN [n |-> 0, p |-> p,
              err |-> "Failed to decrypt box! Message length must be smaller than 32KB!"]
        ELSE [n |-> Len(r.out), p |-> Copy(p, r.out), err |-> "nil"] :
        r \in { OpenAfterPrecomputation(<<>>,
                    Slice(encryptedData, 24, Len(encryptedData)), nonce, sharedKey) :
                nonce \in {Copy(MakeBytes(24), Slice(encryptedData, 0, 24))} } } : TRUE

\* e calls nacl.Writer.Write(p).
NaclWrite(e, p, rnd, fail) ==
    /\ codec = "nacl"
    /\ \E r \in {NaclWriterWrite(swKey[e], p, rnd, fail)} :
           /\ wire' = [wire EXCEPT ![Peer(e)] = @ \o r.out]
           /\ wlog' = [wlog EXCEPT ![e] = Append(@, Written("NaclWrite", p, rnd, r, fail))]
    /\ UNCHANGED <<codec, lMaxLength, servevars, rpos, srKey, swKey, rd, rlog, tampered, conn, progvars>>

\* e calls nacl.Reader.Read(p): it makes its buffer and calls
\* LengthPrefixer.Read, which starts with binary.Read of the header
\* (part_002:38-39, part_000:49-50).
NaclReadBegin(e, p) ==
    /\ codec = "nacl"
    /\ rd[e].st = "idle"
    /\ StartRead(e, "hdr", "NaclRead", p, 4)
    /\ UNCHANGED <<codec, lMaxLength, servevars, wire, rpos, srKey, swKey, rlog, wlog, tampered, conn, progvars>>

\* The header has arrived: the length check and the allocation of
\* LengthPrefixer.Read (part_000:51-58); its error is that of
\* nacl.Reader.Read (part_002:40-42).
NaclReadGotHeader(e) ==
    /\ rd[e].st = "hdr"
    /\ rd[e].op = "NaclRead"
    /\ ReadFullDone(rd[e].buf, rd[e].n)
    /\ \E h \in {LengthPrefixerReadHeaderField(lMaxLength[e], rd[e].buf)} :
           IF h.err # "nil"
           THEN /\ rlog' = [rlog EXCEPT ![e] = Append(@,
                       Done(e, [msg |-> <<>>, n |-> 0, err |-> h.err, p |-> rd[e].p],
                            h.alloc))]
                /\ rd' = [rd EXCEPT ![e] = Idle]
           ELSE /\ rd' = [rd EXCEPT ![e].st = "data", ![e].n = 0,
                                    ![e].buf = MakeBytes(Uint32ToInt(h.alloc))]
                /\ UNCHANGED rlog
    /\ UNCHANGED <<codec, lMaxLength, servevars, wire, rpos, srKey, swKey, wlog, tampered, conn, progvars>>

\* The payload has arrived: LengthPrefixer.Read copies it into the buffer
\* of nacl.Reader.Read (part_000:59-65), which opens the box and copies the
\* message into p (part_002:44-52).
NaclReadGotData(e) ==
    /\ rd[e].st = "data"
    /\ rd[e].op = "NaclRead"
    /\ ReadFullDone(rd[e].buf, rd[e].n)
    /\ \E r \in { NaclReaderOpen(srKey[e], rd[e].p, lp.p) :
                   lp \in {LengthPrefixerReadCopy(MakeBytes(NaclMaxMessageLength),
                                                  rd[e].buf)} } :
           rlog' = [rlog EXCEPT ![e] = Append(@,
               Done(e, [msg |-> <<>>, n |-> r.n, err |-> r.err, p |-> r.p],
                    Uint32(Len(rd[e].buf))))]
    /\ rd' = [rd EXCEPT ![e] = Idle]
    /\ UNCHANGED <<codec, lMaxLength, servevars, wire, rpos, srKey, swKey, wlog, tampered, conn, progvars>>

\* The two ends after the handshake of part_006: the LengthPrefixer with
\* maxMessageLength, and nacl.Reader and nacl.Writer with the shared key
\* (part_006:49-51, 83-85).
InitNacl ==
    /\ codec = "nacl"
    /\ lMaxLength = [e \in Endpoints |-> NaclMaxMessageLength]
    /\ srKey = [e \in Endpoints |->
           Precompute(PublicKey(PrivateKey(IF e = "client" THEN 1 ELSE 0)),
                      PrivateKey(IF e = "client" THEN 0 ELSE 1))]
    /\ swKey = [e \in Endpoints |->
           Precompute(PublicKey(PrivateKey(IF e = "client" THEN 1 ELSE 0)),
                      PrivateKey(IF e = "client" THEN 0 ELSE 1))]
    /\ EmptyStreams
    /\ NoProgram

\* One end writes messages of every length up to MaxBoxLength, the other
\* reads them into a buffer that can hold each of them.
NextNacl ==
    \/ \E n \in 0..MaxBoxLength, rnd \in RandValues :
           MayInject("server") /\ NaclWrite("client", Msg(n), rnd, "none")
    \/ ConnRead("server", Missing("server"))
    \/ NaclReadBegin("server", CallerBuffer(MaxBoxLength))
    \/ NaclReadGotHeader("server")
    \/ NaclReadGotData("server")

SpecNacl == InitNacl /\ [][NextNacl]_vars

\* C30 (layered composition round trip): with the nacl codec on the
\* LengthPrefixer, a nacl.Reader.Read that started at the frame of a
\* nacl.Writer.Write(m), 0 <= len(m) <= MaxBoxLength, returns no error and
\* exactly m: len(m) as its count and m in the first bytes of its buffer.
C30_LayeredRoundTrip ==
    \A x \in Reads("server") : \A i \in Calls("server") :
        (x.op = "NaclRead" /\ Sent("server")[i].kind = "NaclWrite"
            /\ Offset(Sent("server"), i) = x.start)
            => /\ x.err = "nil"
               /\ x.n = Len(Sent("server")[i].p)
               /\ Slice(x.p, 0, x.n) = Sent("server")[i].p

\* ------------------------------------------------------------------------
\* The Read implementations with buffers shorter than the message

\* nacl.Reader.Read(p) of src/unnamed/part_001, once the frame is read in
\* full (part_001:117-128): the box is encryptedData[24:n], the message is
\* copied into p, and the count returned is len(decryptedData).
NaclReaderRead001(sharedKey, p, encryptedData) ==
    IF Len(encryptedData) < 24
    THEN [msg |-> <<>>, n |-> 0, err |-> "panic: slice bounds out of range", p |-> p]
    ELSE CHOOSE res \in
           { IF ~r.ok
             THEN [msg |-> <<>>, n |-> 0, err |-> "Failed to decrypt box!", p |-> p]
             ELSE [msg |-> <<>>, n |-> Len(r.out), err |-> "nil", p |-> Copy(p, r.out)] :
             r \in { OpenAfterPrecomputation(<<>>,
                         Slice(encryptedData, 24, Len(encryptedData)), nonce, sharedKey) :
                     nonce \in {Copy(MakeBytes(24), Slice(encryptedData, 0, 24))} } }
           : TRUE

\* e calls nacl.Writer.Write(p) of part_001 (part_001:147-178), which is
\* the code of snacl.Writer.Write.
Nacl1Write(e, p, rnd, fail) ==
    /\ codec = "part_001 nacl"
    /\ \E r \in {SnaclWriterWrite(swKey[e], p, rnd, fail)} :
           /\ wire' = [wire EXCEPT ![Peer(e)] = @ \o r.out]
           /\ wlog' = [wlog EXCEPT ![e] = Append(@, Written("Nacl1Write", p, rnd, r, fail))]
    /\ UNCHANGED <<codec, lMaxLength, servevars, rpos, srKey, swKey, rd, rlog, tampered, conn, progvars>>

\* e calls nacl.Reader.Read(p) of part_001: binary.Read of the header
\* (part_001:106-110).
Nacl1ReadBegin(e, p) ==
    /\ codec = "part_001 nacl"
    /\ rd[e].st = "idle"
    /\ StartRead(e, "hdr", "Nacl1Read", p, 4)
    /\ UNCHANGED <<codec, lMaxLength, servevars, wire, rpos, srKey, swKey, rlog, wlog, tampered, conn, progvars>>

\* The header has arrived: make([]byte, length), whatever the length
\* (part_001:112), as in snacl.Reader.Read.
Nacl1ReadGotHeader(e) ==
    /\ rd[e].st = "hdr"
    /\ rd[e].op = "Nacl1Read"
    /\ ReadFullDone(rd[e].buf, rd[e].n)
    /\ \E h \in {SnaclReadHeader(rd[e].buf)} :
           IF Listable(h.alloc)
           THEN rd' = [rd EXCEPT ![e].st = "data", ![e].n = 0,
                                 ![e].buf = MakeBytes(Uint32ToInt(h.alloc))]
           ELSE rd' = [rd EXCEPT ![e] = [st |-> "alloc", op |-> rd[e].op, p |-> rd[e].p,
                                         buf |-> <<>>, n |-> 0, start |-> rd[e].start,
                                         bytewise |-> rd[e].bytewise, size |-> h.alloc]]
    /\ UNCHANGED <<codec, lMaxLength, servevars, wire, rpos, srKey, swKey, rlog, wlog, tampered, conn, progvars>>

\* The frame has arrived: open it, copy it and return (part_001:113-128).
Nacl1ReadGotData(e) ==
    /\ rd[e].st = "data"
    /\ rd[e].op = "Nacl1Read"
    /\ ReadFullDone(rd[e].buf, rd[e].n)
    /\ \E res \in {NaclReaderRead001(srKey[e], rd[e].p, rd[e].buf)} :
           rlog' = [rlog EXCEPT ![e] = Append(@, Done(e, res, Uint32(Len(rd[e].buf))))]
    /\ rd' = [rd EXCEPT ![e] = Idle]
    /\ UNCHANGED <<codec, lMaxLength, servevars, wire, rpos, srKey, swKey, wlog, tampered, conn, progvars>>

\* Two ends with the shared key, on one of the codecs that have a Read:
\* SecureReader (secure.go), LengthPrefixer (prefix.go and part_000, the
\* latter with the maxLength of the earlier main.go) and nacl.Reader of
\* part_001.
InitCount ==
    /\ codec \in {"secure", "prefix", "part_000", "part_001 nacl"}
    /\ lMaxLength = [e \in Endpoints |-> IF codec = "part_000" THEN MaxFrameLength ELSE 0]
    /\ srKey = [e \in Endpoints |->
           Precompute(PublicKey(PrivateKey(IF e = "client" THEN 1 ELSE 0)),
                      PrivateKey(IF e = "client" THEN 0 ELSE 1))]
    /\ swKey = srKey
    /\ EmptyStreams
    /\ NoProgram

\* One end writes messages of up to MaxMessageLength bytes, the other reads
\* them into buffers of 0, 1 and MaxMessageLength bytes.
NextCount ==
    \/ \E n \in 0..MaxMessageLength :
           MayInject("server") /\ Write("client", Msg(n), 0, "none")
    \/ \E n \in 0..MaxMessageLength :
           MayInject("server") /\ LPWrite("client", Msg(n), "none")
    \/ \E n \in 0..MaxMessageLength :
           MayInject("server") /\ FramedWrite("client", Msg(n))
    \/ \E n \in 0..MaxMessageLength :
           MayInject("server") /\ Nacl1Write("client", Msg(n), 0, "none")
    \/ ConnRead("server", Missing("server"))
    \/ \E n \in {0} \cup BufferLengths : ReadBegin("server", "Read", CallerBuffer(n))
    \/ \E n \in {0} \cup BufferLengths : LPReadBegin("server", CallerBuffer(n))
    \/ \E n \in {0} \cup BufferLengths : FramedReadBegin("server", CallerBuffer(n))
    \/ \E n \in {0} \cup BufferLengths : Nacl1ReadBegin("server", CallerBuffer(n))
    \/ ReadMsgGotHeader("server")
    \/ ReadMsgGotData("server")
    \/ LPReadGotHeader("server")
    \/ LPReadGotData("server")
    \/ FramedReadGotHeader("server")
    \/ FramedReadGotData("server")
    \/ Nacl1ReadGotHeader("server")
    \/ Nacl1ReadGotData("server")

SpecCount == InitCount /\ [][NextCount]_vars

\* C31 (read count within the buffer): a Read(p) of any implementation
\* that returned no error returned a count n with 0 <= n <= len(p), and n is
\* the number of bytes copied: the first n bytes of p are the first n bytes
\* of the message written, the rest of p is as the caller passed it.
C31_ReadCount ==
    \A x \in Reads("server") : \A i \in Calls("server") :
        (x.op \in {"Read", "LPRead", "FramedRead", "Nacl1Read"}
            /\ x.err = "nil" /\ Offset(Sent("server"), i) = x.start)
            => /\ 0 <= x.n /\ x.n <= Len(x.p0)
               /\ x.n = Min(Len(x.p0), Len(Sent("server")[i].p))
               /\ x.p = Copy(x.p0, Sent("server")[i].p)

====
